---- MODULE Spec2Model ----
(***************************************************************************)
(* Maze_Solver_RP2040: grid map (MazeMap), BFS planner (Planner),          *)
(* heuristic weights (Learning) and decision core (Navigator).             *)
(*                                                                         *)
(* Points are records [x, y].  A MazeMap is (w_, h_, grid_) with grid_ a   *)
(* function over the linear indices 0 .. w_*h_-1 (row-major, y*w_+x).      *)
(* Floats are IEEE-754 binary32 values, see the F* operators.              *)
(***************************************************************************)
EXTENDS Integers, Sequences, FiniteSets, TLC

VARIABLES
    w_,        \* MazeMap::w_
    h_,        \* MazeMap::h_
    grid_,     \* MazeMap::grid_
    start_,    \* Navigator::start_
    goal_,     \* Navigator::goal_
    has_goal_, \* Navigator::has_goal_
    plan_,     \* Navigator::plan_
    heur_,     \* Navigator::heur_
    seen_,     \* Navigator::seen_
    pmem,      \* PersistentMemory: the flash sector, the files, the globals
    sim,       \* the locals of the episode loop that drives the Navigator
    ret,       \* the last call made on the object: its arguments and result
    calls      \* number of bounded calls made so far

vars == <<w_, h_, grid_, start_, goal_, has_goal_, plan_, heur_, seen_, pmem, sim, ret, calls>>

(***************************************************************************)
(* Bounds                                                                  *)
(***************************************************************************)
MaxWalls == 2      \* most walls (edges) present in a map handed to the planner
MaxRewards == 3    \* most applyReward calls in a run
MaxObserve == 2    \* most observeCellWalls calls in a run
MaxSeen == 1       \* largest visit count of a cell when a decision is asked

\* the (width, height) pairs of the maps handed to the planner
MapDims == {<<1, 1>>, <<2, 1>>, <<1, 2>>, <<3, 1>>, <<1, 3>>, <<2, 2>>, <<3, 2>>}

(***************************************************************************)
(* MazeMap                                                                 *)
(***************************************************************************)
Pt(x, y) == [x |-> x, y |-> y]

Cell == [wall_n |-> FALSE, wall_e |-> FALSE, wall_s |-> FALSE, wall_w |-> FALSE]

Dirs == {"N", "E", "S", "W"}

MazeMap(w, h) == [i \in 0 .. (w * h - 1) |-> Cell]

in_bounds(w, h, x, y) == x >= 0 /\ y >= 0 /\ x < w /\ y < h

at(w, x, y) == y * w + x

\* set_wall reaching for the east neighbor by index without the bounds test
set_wall_unchecked(grid, w, h, x, y, dir, present) ==
    IF ~in_bounds(w, h, x, y) THEN grid
    ELSE LET c == at(w, x, y) IN
      IF dir = "N" THEN
        LET g1 == [grid EXCEPT ![c].wall_n = present] IN
        IF in_bounds(w, h, x, y - 1) THEN [g1 EXCEPT ![at(w, x, y - 1)].wall_s = present] ELSE g1
      ELSE IF dir = "E" THEN
        LET g1 == [grid EXCEPT ![c].wall_e = present] IN
        IF at(w, x + 1, y) \in DOMAIN grid THEN [g1 EXCEPT ![at(w, x + 1, y)].wall_w = present] ELSE g1
      ELSE IF dir = "S" THEN
        LET g1 == [grid EXCEPT ![c].wall_s = present] IN
        IF in_bounds(w, h, x, y + 1) THEN [g1 EXCEPT ![at(w, x, y + 1)].wall_n = present] ELSE g1
      ELSE IF dir = "W" THEN
        LET g1 == [grid EXCEPT ![c].wall_w = present] IN
        IF in_bounds(w, h, x - 1, y) THEN [g1 EXCEPT ![at(w, x - 1, y)].wall_e = present] ELSE g1
      ELSE grid

\* set_wall with the neighbor's side of an east wall left alone
set_wall_one_sided(grid, w, h, x, y, dir, present) ==
    IF ~in_bounds(w, h, x, y) THEN grid
    ELSE LET c == at(w, x, y) IN
      IF dir = "N" THEN
        LET g1 == [grid EXCEPT ![c].wall_n = present] IN
        IF in_bounds(w, h, x, y - 1) THEN [g1 EXCEPT ![at(w, x, y - 1)].wall_s = present] ELSE g1
      ELSE IF dir = "E" THEN [grid EXCEPT ![c].wall_e = present]
      ELSE IF dir = "S" THEN
        LET g1 == [grid EXCEPT ![c].wall_s = present] IN
        IF in_bounds(w, h, x, y + 1) THEN [g1 EXCEPT ![at(w, x, y + 1)].wall_n = present] ELSE g1
      ELSE IF dir = "W" THEN
        LET g1 == [grid EXCEPT ![c].wall_w = present] IN
        IF in_bounds(w, h, x - 1, y) THEN [g1 EXCEPT ![at(w, x - 1, y)].wall_e = present] ELSE g1
      ELSE grid

set_wall(grid, w, h, x, y, dir, present) ==
    IF ~in_bounds(w, h, x, y) THEN grid
    ELSE LET c == at(w, x, y) IN
      IF dir = "N" THEN
        LET g1 == [grid EXCEPT ![c].wall_n = present] IN
        IF in_bounds(w, h, x, y - 1) THEN [g1 EXCEPT ![at(w, x, y - 1)].wall_s = present] ELSE g1
      ELSE IF dir = "E" THEN
        LET g1 == [grid EXCEPT ![c].wall_e = present] IN
        IF in_bounds(w, h, x + 1, y) THEN [g1 EXCEPT ![at(w, x + 1, y)].wall_w = present] ELSE g1
      ELSE IF dir = "S" THEN
        LET g1 == [grid EXCEPT ![c].wall_s = present] IN
        IF in_bounds(w, h, x, y + 1) THEN [g1 EXCEPT ![at(w, x, y + 1)].wall_n = present] ELSE g1
      ELSE IF dir = "W" THEN
        LET g1 == [grid EXCEPT ![c].wall_w = present] IN
        IF in_bounds(w, h, x - 1, y) THEN [g1 EXCEPT ![at(w, x - 1, y)].wall_e = present] ELSE g1
      ELSE grid

\* read of one wall bit of a cell record
wall(c, dir) ==
    IF dir = "N" THEN c.wall_n
    ELSE IF dir = "E" THEN c.wall_e
    ELSE IF dir = "S" THEN c.wall_s
    ELSE c.wall_w

(***************************************************************************)
(* IEEE-754 binary32 arithmetic (round to nearest, ties to even).          *)
(* A float is [s, e, m] with value (-1)^s * m * 2^e; m = 0 (then s = 0,    *)
(* e = 0) or 2^23 <= m < 2^24.  Infinities, NaN and subnormals are not     *)
(* represented: no operation of the model reaches them.                    *)
(***************************************************************************)
FZero == [s |-> 0, e |-> 0, m |-> 0]

BitLen(M) == IF M >= 2^30 THEN 31 ELSE CHOOSE k \in 0 .. 30 : (k = 0 \/ 2^(k - 1) <= M) /\ M < 2^k

\* the float of sign s and exponent e whose 24-bit significand is r, or 2^24
\* after a carry
FCarry(s, r, e) ==
    IF r = 2^24 THEN [s |-> s, e |-> e + 1, m |-> 2^23] ELSE [s |-> s, e |-> e, m |-> r]

\* round to nearest, ties to even: q the kept bits, low the k dropped bits
FRound(s, q, low, half, e, sticky) ==
    IF low > half \/ (low = half /\ (sticky \/ q % 2 = 1))
    THEN FCarry(s, q + 1, e)
    ELSE FCarry(s, q, e)

\* FPack for M of n bits, n >= 1
FNorm(s, M, e, sticky, n) ==
    IF n <= 24 THEN [s |-> s, e |-> e - (24 - n), m |-> M * 2^(24 - n)]
    ELSE FRound(s, M \div 2^(n - 24), M % 2^(n - 24), 2^(n - 25), e + (n - 24), sticky)

\* nearest float to (-1)^s * (M + f) * 2^e, 0 <= f < 1, f > 0 iff sticky
FPack(s, M, e, sticky) ==
    IF M = 0 THEN FZero ELSE FNorm(s, M, e, sticky, BitLen(M))

FromInt(n) == IF n < 0 THEN FPack(1, 0 - n, 0, FALSE) ELSE FPack(0, n, 0, FALSE)

\* a < b
FLt(a, b) ==
    LET magLt(p, q) == IF p.m = 0 THEN q.m # 0
                       ELSE q.m # 0 /\ (p.e < q.e \/ (p.e = q.e /\ p.m < q.m))
    IN IF a.s = 0 /\ b.s = 0 THEN magLt(a, b)
       ELSE IF a.s = 1 /\ b.s = 1 THEN magLt(b, a)
       ELSE a.s = 1

FGt(a, b) == FLt(b, a)

FMul(a, b) ==
    IF a.m = 0 \/ b.m = 0 THEN FZero
    ELSE LET ah == a.m \div 4096
             al == a.m % 4096
             bh == b.m \div 4096
             bl == b.m % 4096
             t0 == al * bl
             t1 == ah * bl + al * bh + (t0 \div 4096)
             hi == ah * bh + (t1 \div 4096)
             lo == (t1 % 4096) * 4096 + (t0 % 4096)
         IN FPack((a.s + b.s) % 2, hi * 64 + (lo \div 262144), a.e + b.e + 18, lo % 262144 # 0)

FAdd(a, b) ==
    IF a.m = 0 THEN b
    ELSE IF b.m = 0 THEN a
    ELSE LET p  == IF a.e >= b.e THEN a ELSE b   \* the operand of larger exponent
             q  == IF a.e >= b.e THEN b ELSE a
             d  == p.e - q.e
             Mp == p.m * 64
             Mq == IF d > 30 THEN 0 ELSE (q.m * 64) \div 2^d
             st == IF d > 30 THEN TRUE ELSE (q.m * 64) % 2^d # 0
         IN IF p.s = q.s THEN FPack(p.s, Mp + Mq, p.e - 6, st)
            ELSE IF st THEN FPack(p.s, Mp - Mq - 1, p.e - 6, TRUE)
            ELSE IF Mp >= Mq THEN FPack(p.s, Mp - Mq, p.e - 6, FALSE)
            ELSE FPack(q.s, Mq - Mp, p.e - 6, FALSE)

\* a / (float)n for an integer 1 <= n < 32
FDivInt(a, n) ==
    IF a.m = 0 THEN FZero
    ELSE FPack(a.s, (a.m * 64) \div n, a.e - 6, (a.m * 64) % n # 0)

\* the float literal num/den (decimal literals such as 0.05f = 1/20)
FLit(num, den) == FDivInt(FromInt(num), den)

\* a conversion to uint8_t that rounds to the nearest integer, halves upward
FToU8_nearest(a) ==
    IF a.m = 0 THEN 0
    ELSE IF a.e >= 0 THEN a.m * 2^(a.e)
    ELSE IF a.e < -25 THEN 0
    ELSE (a.m + 2^(0 - a.e - 1)) \div 2^(0 - a.e)

\* static_cast<uint8_t>(a) for 0 <= a < 256: truncation toward zero
FToU8(a) ==
    IF a.m = 0 THEN 0
    ELSE IF a.e >= 0 THEN a.m * 2^(a.e)
    ELSE IF a.e < -24 THEN 0
    ELSE a.m \div 2^(0 - a.e)

(***************************************************************************)
(* Planner::bfs_path                                                       *)
(***************************************************************************)
None == [ok |-> FALSE, path |-> <<>>]

Some(path) == [ok |-> TRUE, path |-> path]

Reverse(sq) == [i \in 1 .. Len(sq) |-> sq[Len(sq) + 1 - i]]

\* bfs_expand with every block testing c.wall_n
bfs_expand_wrong_wall(st, grid, w, h, p, dir, nx, ny) ==
    IF ~wall(grid[at(w, p.x, p.y)], "N") /\ in_bounds(w, h, nx, ny)
    THEN LET j == at(w, nx, ny) IN
         IF ~st.visited[j]
         THEN [q       |-> Append(st.q, Pt(nx, ny)),
               visited |-> [st.visited EXCEPT ![j] = TRUE],
               prev    |-> [st.prev EXCEPT ![j] = at(w, p.x, p.y)]]
         ELSE st
    ELSE st

\* bfs_expand pushing at the front of the queue
bfs_expand_lifo(st, grid, w, h, p, dir, nx, ny) ==
    IF ~wall(grid[at(w, p.x, p.y)], dir) /\ in_bounds(w, h, nx, ny)
    THEN LET j == at(w, nx, ny) IN
         IF ~st.visited[j]
         THEN [q       |-> <<Pt(nx, ny)>> \o st.q,
               visited |-> [st.visited EXCEPT ![j] = TRUE],
               prev    |-> [st.prev EXCEPT ![j] = at(w, p.x, p.y)]]
         ELSE st
    ELSE st

\* bfs_expand without the W block
bfs_expand_no_west(st, grid, w, h, p, dir, nx, ny) ==
    IF dir # "W" /\ ~wall(grid[at(w, p.x, p.y)], dir) /\ in_bounds(w, h, nx, ny)
    THEN LET j == at(w, nx, ny) IN
         IF ~st.visited[j]
         THEN [q       |-> Append(st.q, Pt(nx, ny)),
               visited |-> [st.visited EXCEPT ![j] = TRUE],
               prev    |-> [st.prev EXCEPT ![j] = at(w, p.x, p.y)]]
         ELSE st
    ELSE st

\* one of the four "if (!c.wall_d && in_bounds(n)) { if (!visited[j]) {...} }"
\* blocks of the loop body; st = [q, visited, prev], p the dequeued point
bfs_expand(st, grid, w, h, p, dir, nx, ny) ==
    IF ~wall(grid[at(w, p.x, p.y)], dir) /\ in_bounds(w, h, nx, ny)
    THEN LET j == at(w, nx, ny) IN
         IF ~st.visited[j]
         THEN [q       |-> Append(st.q, Pt(nx, ny)),
               visited |-> [st.visited EXCEPT ![j] = TRUE],
               prev    |-> [st.prev EXCEPT ![j] = at(w, p.x, p.y)]]
         ELSE st
    ELSE st

RECURSIVE bfs_loop_wsen(_, _, _, _, _)
\* the loop with the four blocks in the order W, S, E, N
bfs_loop_wsen(st, grid, w, h, goal) ==
    IF st.q = <<>> THEN st
    ELSE LET p  == Head(st.q)
             s0 == [st EXCEPT !.q = Tail(st.q)]
         IN IF p.x = goal.x /\ p.y = goal.y THEN s0
            ELSE LET sW == bfs_expand(s0, grid, w, h, p, "W", p.x - 1, p.y)
                     sS == bfs_expand(sW, grid, w, h, p, "S", p.x, p.y + 1)
                     sE == bfs_expand(sS, grid, w, h, p, "E", p.x + 1, p.y)
                     sN == bfs_expand(sE, grid, w, h, p, "N", p.x, p.y - 1)
                 IN bfs_loop_wsen(sN, grid, w, h, goal)

RECURSIVE bfs_loop(_, _, _, _, _)
\* while (!q.empty()) { p = q.front(); q.pop(); if (p == goal) break; N; E; S; W }
bfs_loop(st, grid, w, h, goal) ==
    IF st.q = <<>> THEN st
    ELSE LET p  == Head(st.q)
             s0 == [st EXCEPT !.q = Tail(st.q)]
         IN IF p.x = goal.x /\ p.y = goal.y THEN s0
            ELSE LET sN == bfs_expand(s0, grid, w, h, p, "N", p.x, p.y - 1)
                     sE == bfs_expand(sN, grid, w, h, p, "E", p.x + 1, p.y)
                     sS == bfs_expand(sE, grid, w, h, p, "S", p.x, p.y + 1)
                     sW == bfs_expand(sS, grid, w, h, p, "W", p.x - 1, p.y)
                 IN bfs_loop(sW, grid, w, h, goal)

RECURSIVE bfs_walk(_, _, _, _, _)
\* for (cur = idx(goal); cur != -1; cur = prev[cur]) { push; if (cur == idx(start)) break; }
bfs_walk(cur, prev, w, istart, path) ==
    IF cur = -1 THEN path
    ELSE LET path1 == Append(path, Pt(cur % w, cur \div w)) IN
         IF cur = istart THEN path1
         ELSE bfs_walk(prev[cur], prev, w, istart, path1)

bfs_path(grid, w, h, start, goal) ==
    IF ~in_bounds(w, h, start.x, start.y) \/ ~in_bounds(w, h, goal.x, goal.y) THEN None
    ELSE LET istart == at(w, start.x, start.y)
             igoal  == at(w, goal.x, goal.y)
             st0 == [q       |-> <<start>>,
                     visited |-> [i \in 0 .. (w * h - 1) |-> i = istart],
                     prev    |-> [i \in 0 .. (w * h - 1) |-> -1]]
             st  == bfs_loop(st0, grid, w, h, goal)
         IN IF ~st.visited[igoal] THEN None
            ELSE Some(Reverse(bfs_walk(igoal, st.prev, w, istart, <<>>)))

(***************************************************************************)
(* Learning: Heuristics and update_heuristic                               *)
(***************************************************************************)
F01 == FLit(1, 10)   \* 0.1f
F02 == FLit(1, 5)    \* 0.2f
F1  == FromInt(1)    \* 1.0f
F3  == FromInt(3)    \* 3.0f
F10 == FromInt(10)   \* 10.f

Heuristics == [w_right |-> F1, w_front |-> F1, w_left |-> F1, w_back |-> F1]

\* update_weight without the upper saturation
update_weight_no_upper(wt, reward) ==
    LET lr == FLit(1, 20)
        w1 == FAdd(wt, FMul(lr, reward))
    IN IF FLt(w1, F02) THEN F02 ELSE w1

\* "w += lr * reward; if (w < 0.2f) w = 0.2f; if (w > 3.0f) w = 3.0f;"
update_weight(wt, reward) ==
    LET lr == FLit(1, 20)   \* 0.05f
        w1 == FAdd(wt, FMul(lr, reward))
        w2 == IF FLt(w1, F02) THEN F02 ELSE w1
    IN IF FGt(w2, F3) THEN F3 ELSE w2

\* action: 0=right, 1=front, 2=left, 3=back; any other value changes nothing
update_heuristic(hh, action, reward) ==
    IF action = 0 THEN [hh EXCEPT !.w_right = update_weight(hh.w_right, reward)]
    ELSE IF action = 1 THEN [hh EXCEPT !.w_front = update_weight(hh.w_front, reward)]
    ELSE IF action = 2 THEN [hh EXCEPT !.w_left = update_weight(hh.w_left, reward)]
    ELSE IF action = 3 THEN [hh EXCEPT !.w_back = update_weight(hh.w_back, reward)]
    ELSE hh

(***************************************************************************)
(* Navigator                                                               *)
(***************************************************************************)
Actions == {"Right", "Forward", "Left", "Back"}

SensorRead == [left_free : BOOLEAN, front_free : BOOLEAN, right_free : BOOLEAN]

Decision(a, sc) == [action |-> a, score |-> sc]

\* "if (score < 0.f) score = 0.f;"
score_low(score) == IF FLt(score, FZero) THEN FZero ELSE score

\* "if (score > 10.f) score = 10.f;"
score_high(score) == IF FGt(score, F10) THEN F10 ELSE score

\* "static_cast<uint8_t>(score > 10.f ? 10 : (score < 0.f ? 0 : score))"
score_cast(score) ==
    IF FGt(score, F10) THEN 10 ELSE IF FLt(score, FZero) THEN 0 ELSE FToU8(score)

\* score_for with the base divided by 4.0f
score_for_div4(hh, a, sr) ==
    LET base == IF a = "Right" THEN (IF sr.right_free THEN hh.w_right ELSE F01)
                ELSE IF a = "Forward" THEN (IF sr.front_free THEN hh.w_front ELSE F01)
                ELSE IF a = "Left" THEN (IF sr.left_free THEN hh.w_left ELSE F01)
                ELSE (IF ~sr.left_free /\ ~sr.front_free /\ ~sr.right_free
                      THEN hh.w_back ELSE F02)
    IN score_cast(score_high(score_low(FMul(FDivInt(base, 4), F10))))

\* score = (base / 3.0f) * 10.0f, clamped to [0, 10] and cast
score_for(hh, a, sr) ==
    LET base == IF a = "Right" THEN (IF sr.right_free THEN hh.w_right ELSE F01)
                ELSE IF a = "Forward" THEN (IF sr.front_free THEN hh.w_front ELSE F01)
                ELSE IF a = "Left" THEN (IF sr.left_free THEN hh.w_left ELSE F01)
                ELSE (IF ~sr.left_free /\ ~sr.front_free /\ ~sr.right_free
                      THEN hh.w_back ELSE F02)
    IN score_cast(score_high(score_low(FMul(FDivInt(base, 3), F10))))

\* decide following the left wall: Left, then Forward, then Right
decide_left_hand(hh, sr) ==
    LET a == IF sr.left_free THEN "Left"
             ELSE IF sr.front_free THEN "Forward"
             ELSE IF sr.right_free THEN "Right"
             ELSE "Back"
    IN Decision(a, score_for(hh, a, sr))

\* strategy_ is Strategy::RightHand, the only enumerator
decide(hh, sr) ==
    LET a == IF sr.right_free THEN "Right"
             ELSE IF sr.front_free THEN "Forward"
             ELSE IF sr.left_free THEN "Left"
             ELSE "Back"
    IN Decision(a, score_for(hh, a, sr))

abs_dirs == <<"N", "E", "S", "W">>   \* index d is abs_dirs[d + 1]

\* rel_to_abs with left and right exchanged
rel_to_abs_mirrored(heading, rel) ==
    LET d == IF rel = 0 THEN (heading + 1) % 4
             ELSE IF rel = 1 THEN heading
             ELSE (heading + 3) % 4
    IN abs_dirs[d + 1]

\* rel: 0=Left, 1=Front, 2=Right
rel_to_abs(heading, rel) ==
    LET d == IF rel = 0 THEN (heading + 3) % 4
             ELSE IF rel = 1 THEN heading
             ELSE (heading + 1) % 4
    IN abs_dirs[d + 1]

\* observeCellWalls that also opens the wall behind the agent
observe_walls_back_open(grid, w, h, cell, sr, heading) ==
    LET g1 == set_wall(grid, w, h, cell.x, cell.y, rel_to_abs(heading, 0), ~sr.left_free)
        g2 == set_wall(g1, w, h, cell.x, cell.y, rel_to_abs(heading, 1), ~sr.front_free)
        g3 == set_wall(g2, w, h, cell.x, cell.y, rel_to_abs(heading, 2), ~sr.right_free)
    IN set_wall(g3, w, h, cell.x, cell.y, abs_dirs[((heading + 2) % 4) + 1], FALSE)

\* updates the three walls seen from cell, then counts the visit
observe_walls(grid, w, h, cell, sr, heading) ==
    LET g1 == set_wall(grid, w, h, cell.x, cell.y, rel_to_abs(heading, 0), ~sr.left_free)
        g2 == set_wall(g1, w, h, cell.x, cell.y, rel_to_abs(heading, 1), ~sr.front_free)
    IN set_wall(g2, w, h, cell.x, cell.y, rel_to_abs(heading, 2), ~sr.right_free)

SeenSize(seen) == Cardinality(DOMAIN seen)

\* the visit count without its saturation at 255
observe_seen_unsaturated(seen, w, h, cell) ==
    IF SeenSize(seen) # 0 /\ in_bounds(w, h, cell.x, cell.y)
    THEN LET id == at(w, cell.x, cell.y) IN
         IF id >= 0 /\ id < SeenSize(seen)
         THEN [seen EXCEPT ![id] = seen[id] + 1]
         ELSE seen
    ELSE seen

observe_seen(seen, w, h, cell) ==
    IF SeenSize(seen) # 0 /\ in_bounds(w, h, cell.x, cell.y)
    THEN LET id == at(w, cell.x, cell.y) IN
         IF id >= 0 /\ id < SeenSize(seen) /\ seen[id] < 255
         THEN [seen EXCEPT ![id] = seen[id] + 1]
         ELSE seen
    ELSE seen

\* absolute move wanted by the plan from current to its successor, or "X"
plan_wanted_abs(plan, current) ==
    LET hits == {i \in 1 .. Len(plan) : plan[i].x = current.x /\ plan[i].y = current.y} IN
    IF plan = <<>> \/ hits = {} THEN "X"
    ELSE LET it == CHOOSE i \in hits : \A k \in hits : i <= k IN   \* std::find_if: first match
         IF it = Len(plan) THEN "X"
         ELSE LET next == plan[it + 1] IN
              IF next.x = current.x /\ next.y = current.y - 1 THEN "N"
              ELSE IF next.x = current.x + 1 /\ next.y = current.y THEN "E"
              ELSE IF next.x = current.x /\ next.y = current.y + 1 THEN "S"
              ELSE IF next.x = current.x - 1 /\ next.y = current.y THEN "W"
              ELSE "X"

\* push_cand that keeps a blocked direction when the plan asks for it
push_cand_plan_first(seen, w, h, plan, current, heading, rel, free_flag) ==
    IF ~free_flag /\ rel_to_abs(heading, rel) # plan_wanted_abs(plan, current) THEN <<>>
    ELSE LET abs == rel_to_abs(heading, rel)
             nx  == IF abs = "E" THEN current.x + 1
                    ELSE IF abs = "W" THEN current.x - 1 ELSE current.x
             ny  == IF abs = "N" THEN current.y - 1
                    ELSE IF abs = "S" THEN current.y + 1 ELSE current.y
             sn  == IF SeenSize(seen) # 0 /\ in_bounds(w, h, nx, ny)
                    THEN seen[at(w, nx, ny)] ELSE 255
         IN << [a |-> IF rel = 0 THEN "Left" ELSE IF rel = 1 THEN "Forward" ELSE "Right",
                seen |-> sn,
                matches_plan |-> (abs = plan_wanted_abs(plan, current))] >>

\* the Cand pushed by push_cand(rel, free_flag), as a sequence of 0 or 1 element
push_cand(seen, w, h, plan, current, heading, rel, free_flag) ==
    IF ~free_flag THEN <<>>
    ELSE LET abs == rel_to_abs(heading, rel)
             nx  == IF abs = "E" THEN current.x + 1
                    ELSE IF abs = "W" THEN current.x - 1 ELSE current.x
             ny  == IF abs = "N" THEN current.y - 1
                    ELSE IF abs = "S" THEN current.y + 1 ELSE current.y
             sn  == IF SeenSize(seen) # 0 /\ in_bounds(w, h, nx, ny)
                    THEN seen[at(w, nx, ny)] ELSE 255
         IN << [a |-> IF rel = 0 THEN "Left" ELSE IF rel = 1 THEN "Forward" ELSE "Right",
                seen |-> sn,
                matches_plan |-> (abs = plan_wanted_abs(plan, current))] >>

\* cand_less comparing the heuristic score before the plan alignment
cand_less_score_first(hh, sr, a, b) ==
    LET au == (a.seen = 0)
        bu == (b.seen = 0)
    IN IF au # bu THEN au
       ELSE IF a.seen # b.seen THEN a.seen < b.seen
       ELSE IF score_for(hh, a.a, sr) # score_for(hh, b.a, sr)
            THEN score_for(hh, a.a, sr) > score_for(hh, b.a, sr)
       ELSE a.matches_plan /\ ~b.matches_plan

\* the comparator handed to std::stable_sort: TRUE iff a goes before b
cand_less(hh, sr, a, b) ==
    LET au == (a.seen = 0)
        bu == (b.seen = 0)
    IN IF au # bu THEN au
       ELSE IF a.seen # b.seen THEN a.seen < b.seen
       ELSE IF a.matches_plan # b.matches_plan THEN a.matches_plan
       ELSE score_for(hh, a.a, sr) > score_for(hh, b.a, sr)

\* the least element of the set of positions S, or dflt when S is empty
first_of(S, dflt) == IF S = {} THEN dflt ELSE CHOOSE i \in S : \A k \in S : i <= k

\* sq with c put at position pos
insert_at(sq, c, pos) == SubSeq(sq, 1, pos - 1) \o <<c>> \o SubSeq(sq, pos, Len(sq))

\* insertion of c into the sorted sequence sq after every element not greater than it
stable_insert(hh, sr, sq, c) ==
    insert_at(sq, c, first_of({i \in 1 .. Len(sq) : cand_less(hh, sr, c, sq[i])}, Len(sq) + 1))

RECURSIVE stable_sort(_, _, _)
stable_sort(hh, sr, cands) ==
    IF cands = <<>> THEN <<>>
    ELSE stable_insert(hh, sr, stable_sort(hh, sr, SubSeq(cands, 1, Len(cands) - 1)),
                       cands[Len(cands)])

\* "d.action = a; d.score = score_for(d.action, sr);"
decision_for(hh, a, sr) == Decision(a, score_for(hh, a, sr))

decidePlanned(hh, seen, w, h, plan, current, heading, sr) ==
    LET cands == push_cand(seen, w, h, plan, current, heading, 0, sr.left_free)
                 \o push_cand(seen, w, h, plan, current, heading, 1, sr.front_free)
                 \o push_cand(seen, w, h, plan, current, heading, 2, sr.right_free)
    IN IF cands # <<>>
       THEN decision_for(hh, stable_sort(hh, sr, cands)[1].a, sr)
       ELSE decision_for(hh, "Back", sr)

\* applyReward with the indices of Right and Forward exchanged
applyReward_swapped(hh, a, reward) ==
    LET idx == IF a = "Right" THEN 1
               ELSE IF a = "Forward" THEN 0
               ELSE IF a = "Left" THEN 2
               ELSE 3
    IN update_heuristic(hh, idx, reward)

\* planRoute that keeps the stored plan when the planner finds no route
planRoute_keep_plan(has_goal, plan, grid, w, h, start, goal) ==
    IF ~has_goal THEN [plan |-> plan, res |-> FALSE]
    ELSE LET p == bfs_path(grid, w, h, start, goal) IN
         IF ~p.ok THEN [plan |-> plan, res |-> FALSE]
         ELSE [plan |-> p.path, res |-> p.path # <<>>]

\* the plan stored by planRoute() and the value it returns
planRoute(has_goal, plan, grid, w, h, start, goal) ==
    IF ~has_goal THEN [plan |-> plan, res |-> FALSE]
    ELSE LET p == bfs_path(grid, w, h, start, goal) IN
         IF ~p.ok THEN [plan |-> <<>>, res |-> FALSE]
         ELSE [plan |-> p.path, res |-> p.path # <<>>]

\* Action -> index expected by update_heuristic
applyReward(hh, a, reward) ==
    LET idx == IF a = "Right" THEN 0
               ELSE IF a = "Forward" THEN 1
               ELSE IF a = "Left" THEN 2
               ELSE 3
    IN update_heuristic(hh, idx, reward)

(***************************************************************************)
(* PersistentMemory: the device backend (PICO_BUILD: the reserved flash    *)
(* sector, page 0 for the weights and page 1 for the map) and the host     *)
(* backend (the files heuristics.bin and map.bin under $HOME), with the    *)
(* in-memory fallback g_last_heuristics / g_has_heuristics of each.        *)
(* A 32-bit word is a pair <<high half, low half>>.  A page keeps the      *)
(* first PayloadShown bytes of its payload; the maps of the model are no   *)
(* larger, so no other byte is read.  The file system is taken to work:    *)
(* create_directories, open and write succeed.                             *)
(***************************************************************************)
PAGE_SIZE == 256
MapHeaderSize == 12      \* sizeof(MapHeader)
HeuristicsSize == 16     \* sizeof(Heuristics): four floats
REC_MAGIC == <<19802, 18517>>   \* 0x4D5A4855 'MZHU'
REC_VER == 1
MAP_MAGIC == <<19802, 19792>>   \* 0x4D5A4D50 'MZMP'
MAP_VER == 1
PayloadShown == 3

RECURSIVE BitAnd(_, _)
\* a & b for naturals
BitAnd(a, b) ==
    IF a = 0 \/ b = 0 THEN 0
    ELSE (a % 2) * (b % 2) + 2 * BitAnd(a \div 2, b \div 2)

And32(a, b) == <<BitAnd(a[1], b[1]), BitAnd(a[2], b[2])>>

\* the bits 0xFFFFFFFF of an erased float (a NaN), and the bits left where two
\* different floats were programmed over each other
FErased == [s |-> 1, e |-> 128, m |-> 16777215]
FMixed == [s |-> 0, e |-> 128, m |-> 0]

\* the payload of page 0 when erased
ErasedWeights == [w_right |-> FErased, w_front |-> FErased, w_left |-> FErased, w_back |-> FErased]

\* flash bits only go from 1 to 0: programming over erased bytes gives the data
AndWeights(old, new) ==
    [f \in DOMAIN old |->
        IF old[f] = FErased THEN new[f]
        ELSE IF new[f] = FErased \/ new[f] = old[f] THEN old[f]
        ELSE FMixed]

\* flash_range_erase: every byte 0xFF
ErasedPage0 ==
    [magic |-> <<65535, 65535>>, version |-> 65535, size |-> 65535, h |-> ErasedWeights]

ErasedPage1 ==
    [magic |-> <<65535, 65535>>, version |-> 65535, w |-> 65535, h |-> 65535,
     size |-> 65535, data |-> [i \in 1 .. PayloadShown |-> 255]]

\* flash_range_program on page 0 and on page 1: the bits of the page that the
\* data has at 0 go to 0, the others stay
flash_program0(page, buf) ==
    [magic |-> And32(page.magic, buf.magic), version |-> BitAnd(page.version, buf.version),
     size |-> BitAnd(page.size, buf.size), h |-> AndWeights(page.h, buf.h)]

flash_program1(page, buf) ==
    [magic |-> And32(page.magic, buf.magic), version |-> BitAnd(page.version, buf.version),
     w |-> BitAnd(page.w, buf.w), h |-> BitAnd(page.h, buf.h),
     size |-> BitAnd(page.size, buf.size),
     data |-> [i \in 1 .. PayloadShown |-> BitAnd(page.data[i], buf.data[i])]]

NoFile == [exists |-> FALSE]

\* the store of both backends and the globals of each process
PmemEmpty ==
    [home   |-> TRUE,     \* getenv("HOME") is set
     flash  |-> [p0 |-> ErasedPage0, p1 |-> ErasedPage1],
     file_h |-> NoFile,
     file_m |-> NoFile,
     g_pico |-> [has |-> FALSE, last |-> Heuristics],
     g_host |-> [has |-> FALSE, last |-> Heuristics]]

\* one byte per cell, row-major: N=1, E=2, S=4, W=8
pmem_encode_map_bytes(grid, w, h) ==
    [i \in 1 .. w * h |->
        LET c == grid[i - 1] IN
        (IF c.wall_n THEN 1 ELSE 0) + (IF c.wall_e THEN 2 ELSE 0)
          + (IF c.wall_s THEN 4 ELSE 0) + (IF c.wall_w THEN 8 ELSE 0)]

\* "if (b & k) out->set_wall(x,y,dir,true);"
decode_bit(grid, w, h, x, y, b, k, dir) ==
    IF (b \div k) % 2 = 1 THEN set_wall(grid, w, h, x, y, dir, TRUE) ELSE grid

decode_cell(grid, w, h, x, y, b) ==
    decode_bit(decode_bit(decode_bit(decode_bit(grid, w, h, x, y, b, 1, "N"),
                                     w, h, x, y, b, 2, "E"),
                          w, h, x, y, b, 4, "S"),
               w, h, x, y, b, 8, "W")

RECURSIVE decode_from(_, _, _, _, _)
\* the loop of pmem_decode_map_bytes from linear index i on
decode_from(grid, w, h, data, i) ==
    IF i >= w * h THEN grid
    ELSE decode_from(decode_cell(grid, w, h, i % w, i \div w, data[i + 1]), w, h, data, i + 1)

\* walls are only ever set, never cleared
pmem_decode_map_bytes(grid, w, h, data, len) ==
    IF len < w * h THEN grid ELSE decode_from(grid, w, h, data, 0)

\* the result of a call: the store after it, the value returned, the object
\* behind the out pointer after it
Outcome(pm, res, out) == [pm |-> pm, res |-> res, out |-> out]

flash_has_valid_record(pm) ==
    LET hdr == pm.flash.p0 IN
    hdr.magic = REC_MAGIC /\ hdr.version = REC_VER /\ hdr.size = HeuristicsSize

eraseAll_pico(pm) ==
    Outcome([pm EXCEPT !.flash = [p0 |-> ErasedPage0, p1 |-> ErasedPage1],
                       !.g_pico.has = FALSE],
            TRUE, "none")

eraseAll_host(pm) ==
    IF ~pm.home THEN Outcome(pm, FALSE, "none")
    ELSE Outcome([pm EXCEPT !.file_h = NoFile, !.file_m = NoFile], TRUE, "none")

\* the value of saved_count; active_profile is 0
status_pico(pm) == Outcome(pm, IF flash_has_valid_record(pm) THEN 1 ELSE 0, "none")

status_host(pm) ==
    Outcome(pm, IF pm.home /\ pm.file_h.exists THEN 1 ELSE 0, "none")

\* saveHeuristics on the device that programs page 0 without erasing the sector
saveHeuristics_pico_no_erase(pm, hh) ==
    LET page == [magic |-> REC_MAGIC, version |-> REC_VER, size |-> HeuristicsSize, h |-> hh]
    IN Outcome([pm EXCEPT !.g_pico = [has |-> TRUE, last |-> hh],
                          !.flash.p0 = flash_program0(pm.flash.p0, page)],
               TRUE, "none")

\* erases the whole sector, page 1 included, then programs page 0
saveHeuristics_pico(pm, hh) ==
    LET page == [magic |-> REC_MAGIC, version |-> REC_VER, size |-> HeuristicsSize, h |-> hh]
    IN Outcome([pm EXCEPT !.g_pico = [has |-> TRUE, last |-> hh],
                          !.flash = [p0 |-> flash_program0(ErasedPage0, page),
                                     p1 |-> ErasedPage1]],
               TRUE, "none")

\* the file holds the four floats and no header
saveHeuristics_host(pm, hh) ==
    IF ~pm.home THEN Outcome([pm EXCEPT !.g_host = [has |-> TRUE, last |-> hh]], TRUE, "none")
    ELSE Outcome([pm EXCEPT !.g_host = [has |-> TRUE, last |-> hh],
                            !.file_h = [exists |-> TRUE, size |-> HeuristicsSize, h |-> hh]],
                 TRUE, "none")

loadHeuristics_pico(pm, out) ==
    IF flash_has_valid_record(pm)
    THEN Outcome([pm EXCEPT !.g_pico = [has |-> TRUE, last |-> pm.flash.p0.h]],
                 TRUE, pm.flash.p0.h)
    ELSE IF ~pm.g_pico.has THEN Outcome(pm, FALSE, out)
    ELSE Outcome(pm, TRUE, pm.g_pico.last)

loadHeuristics_host(pm, out) ==
    IF pm.home /\ pm.file_h.exists /\ pm.file_h.size >= HeuristicsSize
    THEN Outcome([pm EXCEPT !.g_host = [has |-> TRUE, last |-> pm.file_h.h]],
                 TRUE, pm.file_h.h)
    ELSE IF ~pm.g_host.has THEN Outcome(pm, FALSE, out)
    ELSE Outcome(pm, TRUE, pm.g_host.last)

\* a map object: MazeMap::w_, h_, grid_
MapObj(w, h, grid) == [w |-> w, h |-> h, grid |-> grid]

\* programs page 1 as it stands, without an erase
saveMapSnapshot_pico(pm, map) ==
    LET bytes   == pmem_encode_map_bytes(map.grid, map.w, map.h)
        payload == Len(bytes) % 65536
        page2   == [magic |-> MAP_MAGIC, version |-> MAP_VER,
                    w |-> map.w % 65536, h |-> map.h % 65536, size |-> payload,
                    data |-> [i \in 1 .. PayloadShown |->
                                IF i <= Len(bytes) THEN bytes[i] ELSE 255]]
    IN IF MapHeaderSize + payload > PAGE_SIZE THEN Outcome(pm, FALSE, "none")
       ELSE Outcome([pm EXCEPT !.flash.p1 = flash_program1(pm.flash.p1, page2)], TRUE, "none")

saveMapSnapshot_host(pm, map) ==
    IF ~pm.home THEN Outcome(pm, FALSE, "none")
    ELSE LET bytes == pmem_encode_map_bytes(map.grid, map.w, map.h) IN
         Outcome([pm EXCEPT !.file_m =
                    [exists |-> TRUE, magic |-> MAP_MAGIC, version |-> MAP_VER,
                     w |-> map.w % 65536, h |-> map.h % 65536,
                     size |-> Len(bytes) % 65536, bytes |-> bytes]],
                 TRUE, "none")

loadMapSnapshot_pico(pm, out) ==
    LET mh == pm.flash.p1 IN
    IF ~(mh.magic = MAP_MAGIC /\ mh.version = MAP_VER) THEN Outcome(pm, FALSE, out)
    ELSE IF mh.w # out.w \/ mh.h # out.h THEN Outcome(pm, FALSE, out)
    ELSE IF mh.size > PAGE_SIZE - MapHeaderSize THEN Outcome(pm, FALSE, out)
    ELSE Outcome(pm, TRUE,
                 [out EXCEPT !.grid = pmem_decode_map_bytes(out.grid, out.w, out.h,
                                                            mh.data, mh.size)])

\* gcount() is the number of payload bytes the file holds, at most mh.size
loadMapSnapshot_host(pm, out) ==
    LET mh == pm.file_m IN
    IF ~pm.home THEN Outcome(pm, FALSE, out)
    ELSE IF ~mh.exists THEN Outcome(pm, FALSE, out)
    ELSE IF ~(mh.magic = MAP_MAGIC /\ mh.version = MAP_VER) THEN Outcome(pm, FALSE, out)
    ELSE IF mh.w # out.w \/ mh.h # out.h THEN Outcome(pm, FALSE, out)
    ELSE IF Len(mh.bytes) < mh.size THEN Outcome(pm, FALSE, out)
    ELSE Outcome(pm, TRUE,
                 [out EXCEPT !.grid = pmem_decode_map_bytes(out.grid, out.w, out.h,
                                                            mh.bytes, mh.size)])

(***************************************************************************)
(* State after construction                                                *)
(***************************************************************************)
NoCall == [op |-> "init"]

\* no episode is being run
NoSim == [test |-> "none"]

\* Navigator's members other than map_, as their default initialisers leave them
NavInit ==
    /\ start_ = Pt(0, 0)
    /\ goal_ = Pt(0, 0)
    /\ has_goal_ = FALSE
    /\ plan_ = <<>>
    /\ heur_ = Heuristics
    /\ seen_ = <<>>

UNCHANGED_nav == UNCHANGED <<start_, goal_, has_goal_, plan_, heur_, seen_>>

(***************************************************************************)
(* SpecMap: a MazeMap(w, h) under set_wall calls, then one bfs_path query. *)
(* bfs_path takes the map by const reference and keeps no state, so a run  *)
(* is a sequence of set_wall calls followed by one recorded query.         *)
(***************************************************************************)
\* the edges of the grid that carry a wall, each counted once
EdgesPresent(grid, w, h) ==
    {<<x, y, d>> \in (0 .. w - 1) \X (0 .. h - 1) \X Dirs :
        /\ wall(grid[at(w, x, y)], d)
        /\ \/ d \in {"N", "W"}
           \/ d = "E" /\ x = w - 1
           \/ d = "S" /\ y = h - 1}

InitMap ==
    /\ \E d \in MapDims :
         /\ w_ = d[1]
         /\ h_ = d[2]
         /\ grid_ = MazeMap(d[1], d[2])
    /\ NavInit
    /\ ret = NoCall
    /\ calls = 0
    /\ pmem = PmemEmpty
    /\ sim = NoSim

SetWall ==
    /\ ret = NoCall
    /\ \E x \in -1 .. w_, y \in -1 .. h_, dir \in Dirs \cup {"X"}, present \in BOOLEAN :
         /\ grid_' = set_wall(grid_, w_, h_, x, y, dir, present)
         /\ Cardinality(EdgesPresent(grid_', w_, h_)) <= MaxWalls
    /\ UNCHANGED <<w_, h_, ret, calls>>
    /\ UNCHANGED_nav
    /\ UNCHANGED <<pmem, sim>>

\* the cells of a w x h grid and one point beyond each of its four sides
QueryPoints(w, h) ==
    {Pt(x, y) : x \in 0 .. w - 1, y \in 0 .. h - 1}
      \cup {Pt(-1, 0), Pt(w, 0), Pt(0, -1), Pt(0, h)}

BfsPath ==
    /\ ret = NoCall
    /\ \E start \in QueryPoints(w_, h_), goal \in QueryPoints(w_, h_) :
         ret' = [op |-> "bfs_path", start |-> start, goal |-> goal,
                 res |-> bfs_path(grid_, w_, h_, start, goal)]
    /\ UNCHANGED <<w_, h_, grid_, calls>>
    /\ UNCHANGED_nav
    /\ UNCHANGED <<pmem, sim>>

NextMap == SetWall \/ BfsPath

SpecMap == InitMap /\ [][NextMap]_vars

(***************************************************************************)
(* Properties of MazeMap and Planner                                       *)
(***************************************************************************)
Opposite(d) == IF d = "N" THEN "S" ELSE IF d = "S" THEN "N" ELSE IF d = "E" THEN "W" ELSE "E"

\* the point one step from p in absolute direction d
Step(p, d) ==
    IF d = "N" THEN Pt(p.x, p.y - 1)
    ELSE IF d = "E" THEN Pt(p.x + 1, p.y)
    ELSE IF d = "S" THEN Pt(p.x, p.y + 1)
    ELSE Pt(p.x - 1, p.y)

Cells(w, h) == {Pt(x, y) : x \in 0 .. w - 1, y \in 0 .. h - 1}

InGrid(p) == in_bounds(w_, h_, p.x, p.y)

WallAt(p, d) == wall(grid_[at(w_, p.x, p.y)], d)

\* C1: for every in-bounds cell and every direction whose neighbor is in
\* bounds, the cell's wall bit in that direction equals the neighbor's wall
\* bit in the opposite direction.
C1_Coherent ==
    \A p \in Cells(w_, h_) : \A d \in Dirs :
        InGrid(Step(p, d)) => WallAt(p, d) = WallAt(Step(p, d), Opposite(d))

\* a wall stands on an interior edge, and another interior edge is open
C1_Witness ==
    /\ \E p \in Cells(w_, h_) : \E d \in Dirs :
         InGrid(Step(p, d)) /\ WallAt(p, d) /\ WallAt(Step(p, d), Opposite(d))
    /\ \E p \in Cells(w_, h_) : \E d \in Dirs :
         InGrid(Step(p, d)) /\ ~WallAt(p, d)

\* the graph whose edges are the absent walls
Open(p, d) == InGrid(p) /\ InGrid(Step(p, d)) /\ ~WallAt(p, d) /\ ~WallAt(Step(p, d), Opposite(d))

Neighbors(S) == {Step(p, d) : <<p, d>> \in {pd \in S \X Dirs : Open(pd[1], pd[2])}}

RECURSIVE ReachFrom(_)
ReachFrom(S) == IF Neighbors(S) \subseteq S THEN S ELSE ReachFrom(S \cup Neighbors(S))

RECURSIVE DistWithin(_, _, _)
\* least number of moves from the set S to g, g reachable from S
DistWithin(S, g, k) == IF g \in S THEN k ELSE DistWithin(S \cup Neighbors(S), g, k + 1)

Returned == ret.op = "bfs_path" /\ ret.res.ok

\* C2: a returned path has at least one vertex, starts at start, ends at goal,
\* stays in bounds, and each consecutive pair is one step apart along one axis
\* with no wall on the edge between them.
C2_PathWellFormed ==
    Returned =>
      LET path == ret.res.path IN
      /\ Len(path) >= 1
      /\ path[1] = ret.start
      /\ path[Len(path)] = ret.goal
      /\ \A i \in 1 .. Len(path) : InGrid(path[i])
      /\ \A i \in 1 .. Len(path) - 1 :
           \E d \in Dirs : path[i + 1] = Step(path[i], d) /\ Open(path[i], d)

\* a returned path that goes around a wall standing between start and goal
C2_Witness ==
    /\ Returned
    /\ Len(ret.res.path) >= 4
    /\ \E d \in Dirs : ret.goal = Step(ret.start, d) /\ WallAt(ret.start, d)

\* C3: the number of moves of a returned path is the shortest-path distance
\* from start to goal; with start and goal adjacent and the wall between them
\* present the path has at least 3 vertices.
C3_Shortest ==
    Returned =>
      /\ Len(ret.res.path) - 1 = DistWithin({ret.start}, ret.goal, 0)
      /\ \A d \in Dirs :
           (ret.goal = Step(ret.start, d) /\ WallAt(ret.start, d)) => Len(ret.res.path) >= 3

\* a returned path of 3 moves between cells that a longer open route also joins
C3_Witness ==
    /\ Returned
    /\ Len(ret.res.path) = 4
    /\ w_ = 3 /\ h_ = 2
    /\ Cardinality(EdgesPresent(grid_, w_, h_)) <= 1

\* a perfect maze: the open edges form a spanning tree of the grid
Perfect ==
    /\ ReachFrom({Pt(0, 0)}) = Cells(w_, h_)
    /\ Cardinality({pd \in Cells(w_, h_) \X {"E", "S"} : Open(pd[1], pd[2])}) = w_ * h_ - 1

\* C4: bfs_path returns none when start or goal is out of bounds or goal is not
\* reachable from start through absent walls, and a path in every other case;
\* so between every two cells of a perfect maze.
C4_NoneIffUnreachable ==
    ret.op = "bfs_path" =>
      /\ ret.res.ok <=> /\ InGrid(ret.start)
                        /\ InGrid(ret.goal)
                        /\ ret.goal \in ReachFrom({ret.start})
      /\ ret.res.ok \/ ~InGrid(ret.start) \/ ~InGrid(ret.goal) \/ ~Perfect

\* none returned for two cells of the grid that walls separate
C4_Witness ==
    /\ ret.op = "bfs_path"
    /\ ~ret.res.ok
    /\ InGrid(ret.start)
    /\ InGrid(ret.goal)

\* a path returned in a perfect maze with more than one cell
C4_WitnessPerfect ==
    /\ Returned
    /\ Perfect
    /\ w_ * h_ >= 4
    /\ Len(ret.res.path) >= 4

(***************************************************************************)
(* SpecLearn: a Navigator under applyReward calls                          *)
(***************************************************************************)
\* rewards handed to applyReward, as integers (converted to float at the call)
Rewards == {-1000000, -50, -5, -1, 10, 1000000}

InitNav ==
    /\ w_ = 1
    /\ h_ = 1
    /\ grid_ = MazeMap(1, 1)
    /\ NavInit
    /\ ret = NoCall
    /\ calls = 0
    /\ pmem = PmemEmpty
    /\ sim = NoSim

ApplyReward ==
    /\ calls < MaxRewards
    /\ \E a \in Actions, r \in Rewards :
         /\ heur_' = applyReward(heur_, a, FromInt(r))
         /\ ret' = [op |-> "apply_reward", action |-> a, reward |-> r, old |-> heur_]
    /\ calls' = calls + 1
    /\ UNCHANGED <<w_, h_, grid_, start_, goal_, has_goal_, plan_, seen_>>
    /\ UNCHANGED <<pmem, sim>>

NextLearn == ApplyReward

SpecLearn == InitNav /\ [][NextLearn]_vars

\* the weight the specification maps to an action
WeightOf(hh, a) ==
    IF a = "Right" THEN hh.w_right
    ELSE IF a = "Forward" THEN hh.w_front
    ELSE IF a = "Left" THEN hh.w_left
    ELSE hh.w_back

\* a weight in hundredths, rounded to the nearest (for 0 < f < 16)
Centi(f) == IF f.m = 0 THEN 0 ELSE (f.m * 100 + 2^(0 - f.e - 1)) \div 2^(0 - f.e)

ClampInt(v, lo, hi) == IF v < lo THEN lo ELSE IF v > hi THEN hi ELSE v

\* C9: every weight stays within [0.2, 3.0]; a large positive reward leaves the
\* rewarded weight at exactly 3.0 and a large negative one at exactly 0.2.
C9_WeightsBounded ==
    /\ \A a \in Actions :
         /\ ~FLt(WeightOf(heur_, a), FLit(1, 5))
         /\ ~FLt(FromInt(3), WeightOf(heur_, a))
    /\ ret.op = "apply_reward" =>
         /\ ret.reward = 1000000 => WeightOf(heur_, ret.action) = FromInt(3)
         /\ ret.reward = -1000000 => WeightOf(heur_, ret.action) = FLit(1, 5)

\* one weight was driven to 3.0 and another to 0.2
C9_Witness ==
    /\ ret.op = "apply_reward"
    /\ ret.reward = -1000000
    /\ \E a \in Actions : WeightOf(heur_, a) = FromInt(3)
    /\ WeightOf(heur_, ret.action) = FLit(1, 5)

\* C10: applyReward(action, reward) sets the weight mapped to the action to
\* clamp(old + 0.05 * reward, 0.2, 3.0) (to the precision of float, compared
\* in hundredths) and leaves the other three unchanged; from 1.0,
\* (Forward, -5) gives 0.75 and a further (Forward, -50) gives 0.2.
C10_ApplyReward ==
    ret.op = "apply_reward" =>
      /\ \A a \in Actions :
           IF a = ret.action
           THEN Centi(WeightOf(heur_, a))
                  = ClampInt(Centi(WeightOf(ret.old, a)) + 5 * ret.reward, 20, 300)
           ELSE WeightOf(heur_, a) = WeightOf(ret.old, a)
      /\ (ret.action = "Forward" /\ ret.reward = -5 /\ ret.old.w_front = FromInt(1))
           => heur_.w_front = FLit(3, 4)
      /\ (ret.action = "Forward" /\ ret.reward = -50 /\ ret.old.w_front = FLit(3, 4))
           => heur_.w_front = FLit(1, 5)

\* applyReward(Forward, -5) then applyReward(Forward, -50) from the default weights
C10_Witness ==
    /\ ret.op = "apply_reward"
    /\ ret.action = "Forward"
    /\ ret.reward = -50
    /\ ret.old.w_front = FLit(3, 4)
    /\ ret.old.w_right = FromInt(1)
    /\ heur_.w_front = FLit(1, 5)

(***************************************************************************)
(* SpecObserve: a Navigator under setMapDimensions and observeCellWalls    *)
(***************************************************************************)
\* the (width, height) pairs handed to setMapDimensions
ObserveDims == {<<1, 1>>, <<2, 1>>, <<1, 2>>}

SetMapDimensions ==
    /\ \E d \in ObserveDims :
         /\ w_' = d[1]
         /\ h_' = d[2]
         /\ grid_' = MazeMap(d[1], d[2])
         /\ seen_' = [i \in 0 .. (d[1] * d[2] - 1) |-> 0]
         /\ ret' = [op |-> "set_dimensions", w |-> d[1], h |-> d[2]]
    /\ UNCHANGED <<start_, goal_, has_goal_, plan_, heur_, calls>>
    /\ UNCHANGED <<pmem, sim>>

ObserveCellWalls ==
    /\ calls < MaxObserve
    /\ \E cell \in QueryPoints(w_, h_), sr \in SensorRead, heading \in 0 .. 3 :
         /\ grid_' = observe_walls(grid_, w_, h_, cell, sr, heading)
         /\ seen_' = observe_seen(seen_, w_, h_, cell)
         /\ ret' = [op |-> "observe", cell |-> cell, sr |-> sr, heading |-> heading,
                    before |-> [grid |-> grid_, seen |-> seen_]]
    /\ calls' = calls + 1
    /\ UNCHANGED <<w_, h_, start_, goal_, has_goal_, plan_, heur_>>
    /\ UNCHANGED <<pmem, sim>>

NextObserve == SetMapDimensions \/ ObserveCellWalls

SpecObserve == InitNav /\ [][NextObserve]_vars

\* Heading: 0, 1, 2, 3 stand for N, E, S, W
DirOf(k) == IF k = 0 THEN "N" ELSE IF k = 1 THEN "E" ELSE IF k = 2 THEN "S" ELSE "W"

\* C8: after observe(cell, sr, h) with cell in bounds, the wall of cell in
\* direction (h+3) mod 4 equals not left_free, the wall in direction h equals
\* not front_free and the wall in direction (h+1) mod 4 equals not right_free.
C8_ObservedWalls ==
    (ret.op = "observe" /\ InGrid(ret.cell)) =>
      /\ WallAt(ret.cell, DirOf((ret.heading + 3) % 4)) = ~ret.sr.left_free
      /\ WallAt(ret.cell, DirOf(ret.heading)) = ~ret.sr.front_free
      /\ WallAt(ret.cell, DirOf((ret.heading + 1) % 4)) = ~ret.sr.right_free

\* an observation heading W that raised the left wall and removed the right
\* and front walls an earlier observation had left
C8_Witness ==
    /\ ret.op = "observe"
    /\ InGrid(ret.cell)
    /\ ret.heading = 3
    /\ LET c == ret.before.grid[at(w_, ret.cell.x, ret.cell.y)] IN
         /\ ~c.wall_s /\ WallAt(ret.cell, "S")
         /\ c.wall_n /\ ~WallAt(ret.cell, "N")
         /\ c.wall_w /\ ~WallAt(ret.cell, "W")

(***************************************************************************)
(* SpecDecide: decide and decidePlanned asked of a Navigator.  Neither     *)
(* changes the Navigator, so a run is one recorded question put to a       *)
(* Navigator that earlier calls have configured: setMapDimensions (or      *)
(* none), observeCellWalls with all sides free up to MaxSeen times per     *)
(* cell, at most one map().set_wall, setStartGoal and planRoute (or        *)
(* neither), and applyReward for Right and for Left (or neither).          *)
(***************************************************************************)
DecideDims == {<<2, 2>>, <<3, 1>>}

\* the maps a plan is computed on: wall-free, or with a wall east of (0,0)
DecideGrids(w, h) == {MazeMap(w, h), set_wall(MazeMap(w, h), w, h, 0, 0, "E", TRUE)}

\* the default weights, and the weights after a reward for Right and a
\* penalty for Left
DecideHeur ==
    {Heuristics,
     applyReward(applyReward(Heuristics, "Right", FromInt(10)), "Left", FromInt(-5))}

\* the goals planned for: the cells of the last column
DecideGoals(w, h) == {c \in Cells(w, h) : c.x = w - 1}

InitDecide ==
    /\ \/ /\ w_ = 1 /\ h_ = 1
          /\ seen_ = <<>>
       \/ \E d \in DecideDims :
            /\ w_ = d[1] /\ h_ = d[2]
            /\ seen_ \in [0 .. (d[1] * d[2] - 1) -> 0 .. MaxSeen]
    /\ start_ = Pt(0, 0)
    /\ \/ /\ has_goal_ = FALSE
          /\ goal_ = Pt(0, 0)
          /\ grid_ = MazeMap(w_, h_)
          /\ plan_ = <<>>
       \/ /\ has_goal_ = TRUE
          /\ goal_ \in DecideGoals(w_, h_)
          /\ grid_ \in DecideGrids(w_, h_)
          /\ plan_ = planRoute(TRUE, <<>>, grid_, w_, h_, start_, goal_).plan
    /\ heur_ \in DecideHeur
    /\ ret = NoCall
    /\ calls = 0
    /\ pmem = PmemEmpty
    /\ sim = NoSim

Decide ==
    /\ ret = NoCall
    /\ \E sr \in SensorRead :
         ret' = [op |-> "decide", sr |-> sr, res |-> decide(heur_, sr)]
    /\ UNCHANGED <<w_, h_, grid_, calls>>
    /\ UNCHANGED_nav
    /\ UNCHANGED <<pmem, sim>>

DecidePlanned ==
    /\ ret = NoCall
    /\ \E current \in Cells(w_, h_) \cup {Pt(-1, 0)}, heading \in 0 .. 3, sr \in SensorRead :
         ret' = [op |-> "decide_planned", current |-> current, heading |-> heading, sr |-> sr,
                 res |-> decidePlanned(heur_, seen_, w_, h_, plan_, current, heading, sr)]
    /\ UNCHANGED <<w_, h_, grid_, calls>>
    /\ UNCHANGED_nav
    /\ UNCHANGED <<pmem, sim>>

NextDecide == Decide \/ DecidePlanned

SpecDecide == InitDecide /\ [][NextDecide]_vars

(***************************************************************************)
(* Properties of decide and decidePlanned                                  *)
(***************************************************************************)
Turns == {"Left", "Forward", "Right"}

FreeFlag(a, sr) ==
    IF a = "Left" THEN sr.left_free
    ELSE IF a = "Forward" THEN sr.front_free
    ELSE sr.right_free

\* the cell a turn leads to from ret.current under ret.heading
NeighborOf(a) ==
    LET h == ret.heading
        k == IF a = "Left" THEN (h + 3) % 4 ELSE IF a = "Forward" THEN h ELSE (h + 1) % 4
    IN Step(ret.current, DirOf(k))

\* the visit count of a cell: 255 outside the grid; no cell has been counted
\* while there is no table
VisitCount(n) ==
    IF ~InGrid(n) THEN 255
    ELSE IF DOMAIN seen_ = {} THEN 0
    ELSE seen_[n.y * w_ + n.x]

\* the visit count decidePlanned reads: 255 outside the grid and while the
\* table is empty
VisitCountOrNoTable(n) ==
    IF InGrid(n) /\ DOMAIN seen_ # {} THEN seen_[n.y * w_ + n.x] ELSE 255

\* the plan's next step from ret.current leads to the neighbor of turn a
PlanNext(a) ==
    \E i \in 1 .. Len(plan_) - 1 :
        /\ plan_[i] = ret.current
        /\ \A k \in 1 .. i - 1 : plan_[k] # ret.current
        /\ plan_[i + 1] = NeighborOf(a)

\* the sort key of a turn, smaller first, given the visit count vc of its neighbor
KeyOf(a, vc) ==
    <<IF vc = 0 THEN 0 ELSE 1, vc, IF PlanNext(a) THEN 0 ELSE 1,
      10 - score_for(heur_, a, ret.sr)>>

LexLess(k1, k2) ==
    \E i \in 1 .. 4 : k1[i] < k2[i] /\ \A j \in 1 .. i - 1 : k1[j] = k2[j]

TurnOrder(a) == IF a = "Left" THEN 0 ELSE IF a = "Forward" THEN 1 ELSE 2

\* the free turn that comes first under the key, ties kept in the order
\* Left, Forward, Right
FirstTurn(VC(_)) ==
    LET free == {a \in Turns : FreeFlag(a, ret.sr)} IN
    CHOOSE a \in free :
        \A b \in free \ {a} :
            \/ LexLess(KeyOf(a, VC(NeighborOf(a))), KeyOf(b, VC(NeighborOf(b))))
            \/ /\ KeyOf(a, VC(NeighborOf(a))) = KeyOf(b, VC(NeighborOf(b)))
               /\ TurnOrder(a) < TurnOrder(b)

AskedPlanned == ret.op = "decide_planned"

SomeFree == ret.sr.left_free \/ ret.sr.front_free \/ ret.sr.right_free

C5_WitnessNoTable ==
    /\ AskedPlanned
    /\ seen_ = <<>>
    /\ \E a \in Turns : FreeFlag(a, ret.sr) /\ InGrid(NeighborOf(a))

C7_RightHand ==
    ret.op = "decide" =>
      LET sr == ret.sr
          a  == ret.res.action
      IN /\ a = "Right" <=> sr.right_free
         /\ a = "Forward" <=> (~sr.right_free /\ sr.front_free)
         /\ a = "Left" <=> (~sr.right_free /\ ~sr.front_free /\ sr.left_free)
         /\ a = "Back" <=> (~sr.right_free /\ ~sr.front_free /\ ~sr.left_free)
         /\ ret.res.score = score_for(heur_, a, sr)
         /\ (heur_ = Heuristics /\ a # "Back") => ret.res.score = 3

\* right blocked, front and left free: Forward, scored 3 under the default weights
C7_Witness ==
    /\ ret.op = "decide"
    /\ ~ret.sr.right_free /\ ret.sr.front_free /\ ret.sr.left_free
    /\ heur_ = Heuristics
    /\ ret.res = Decision("Forward", 3)

\* C19: when no goal has been set (no plan is stored), decidePlanned returns
\* the action and the score that decide returns for the same sensor read,
\* whatever the cell, the heading, the visit counts and the weights.
C19_NoGoalAsDecide ==
    (AskedPlanned /\ ~has_goal_ /\ plan_ = <<>>) =>
      ret.res = decide(heur_, ret.sr)

\* C20: when the plan's next step from current leads to a left, front or
\* right neighbor that the sensors report free, decidePlanned returns the turn
\* for it, whatever the visit counts.
C20_FollowsPlan ==
    AskedPlanned =>
      \A a \in Turns : (PlanNext(a) /\ FreeFlag(a, ret.sr)) => ret.res.action = a

(***************************************************************************)
(* SpecPlan: a Navigator whose map is edited through map().set_wall, whose *)
(* start and goal are set by setStartGoal, and that is asked to planRoute  *)
(* up to MaxPlans times.                                                   *)
(***************************************************************************)
MaxPlans == 2
MaxPlanWalls == 1

\* the map of a default Navigator, and the maps setMapDimensions has made
PlanDims == {<<1, 1>>, <<2, 1>>, <<3, 1>>}

\* the cells and one point outside the map
PlanPoints(w, h) == Cells(w, h) \cup {Pt(-1, 0)}

InitPlan ==
    /\ \E d \in PlanDims :
         /\ w_ = d[1]
         /\ h_ = d[2]
         /\ grid_ = MazeMap(d[1], d[2])
    /\ NavInit
    /\ ret = NoCall
    /\ calls = 0
    /\ pmem = PmemEmpty
    /\ sim = NoSim

MapSetWall ==
    /\ \E p \in Cells(w_, h_), dir \in Dirs, present \in BOOLEAN :
         /\ grid_' = set_wall(grid_, w_, h_, p.x, p.y, dir, present)
         /\ Cardinality(EdgesPresent(grid_', w_, h_)) <= MaxPlanWalls
    /\ ret' = [op |-> "set_wall"]
    /\ UNCHANGED <<w_, h_, calls>>
    /\ UNCHANGED_nav
    /\ UNCHANGED <<pmem, sim>>

SetStartGoal ==
    /\ \E s \in PlanPoints(w_, h_), g \in PlanPoints(w_, h_) :
         /\ start_' = s
         /\ goal_' = g
    /\ has_goal_' = TRUE
    /\ ret' = [op |-> "set_start_goal"]
    /\ UNCHANGED <<w_, h_, grid_, plan_, heur_, seen_, calls>>
    /\ UNCHANGED <<pmem, sim>>

PlanRoute ==
    /\ calls < MaxPlans
    /\ LET r == planRoute(has_goal_, plan_, grid_, w_, h_, start_, goal_) IN
         /\ plan_' = r.plan
         /\ ret' = [op |-> "plan_route", res |-> r.res, before |-> plan_]
    /\ calls' = calls + 1
    /\ UNCHANGED <<w_, h_, grid_, start_, goal_, has_goal_, heur_, seen_>>
    /\ UNCHANGED <<pmem, sim>>

NextPlan == MapSetWall \/ SetStartGoal \/ PlanRoute

SpecPlan == InitPlan /\ [][NextPlan]_vars

\* the goal can be reached from the start over open edges of the map
Routable == InGrid(start_) /\ InGrid(goal_) /\ goal_ \in ReachFrom({start_})

\* C11: plan_route returns false when no goal has been set; otherwise it stores
\* the planner's result from start to goal on the current map; it returns true
\* if and only if the stored plan is non-empty after the call, and a goal that
\* cannot be reached leaves the stored plan empty and the result false.
C11_PlanRoute ==
    ret.op = "plan_route" =>
      /\ ~has_goal_ => ~ret.res
      /\ has_goal_ =>
           LET p == bfs_path(grid_, w_, h_, start_, goal_) IN
           plan_ = IF p.ok THEN p.path ELSE <<>>
      /\ ret.res <=> plan_ # <<>>
      /\ (has_goal_ /\ ~Routable) => (plan_ = <<>> /\ ~ret.res)
      /\ (has_goal_ /\ Routable) => ret.res

\* a plan was stored, the route has been walled off, and planning again
\* empties the stored plan and returns false
C11_Witness ==
    /\ ret.op = "plan_route"
    /\ has_goal_
    /\ ret.before # <<>>
    /\ plan_ = <<>>
    /\ ~ret.res

\* C21: in every state the stored plan is empty or a sequence of cells whose
\* first element is the Navigator's current start and whose last element is
\* its current goal.
C21_PlanFromStartToGoal ==
    plan_ = <<>> \/ (plan_[1] = start_ /\ plan_[Len(plan_)] = goal_)

(***************************************************************************)
(* SpecStore: the same calls made on the device backend and on the host    *)
(* backend, each starting from an empty store in a fresh process.  The     *)
(* outcome of both is recorded, with the call made before.                 *)
(***************************************************************************)
MaxStoreOps == 4

StoreDims == {<<2, 1>>, <<3, 1>>}

\* maps built by set_wall calls: no wall, a wall east of (0,0), a wall
\* north of the last cell
StoreGrids(w, h) ==
    {MazeMap(w, h),
     set_wall(MazeMap(w, h), w, h, 0, 0, "E", TRUE),
     set_wall(MazeMap(w, h), w, h, w - 1, 0, "N", TRUE)}

StoreMaps == UNION {{MapObj(d[1], d[2], g) : g \in StoreGrids(d[1], d[2])} : d \in StoreDims}

\* the weights saved and the values held by the object loaded into
StoreWeights == DecideHeur

\* a call record without the record of the call before it
Strip(r) == [f \in DOMAIN r \ {"prev"} |-> r[f]]

InitStore ==
    /\ w_ = 1
    /\ h_ = 1
    /\ grid_ = MazeMap(1, 1)
    /\ NavInit
    /\ \E home \in BOOLEAN : pmem = [PmemEmpty EXCEPT !.home = home]
    /\ sim = NoSim
    /\ ret = NoCall
    /\ calls = 0

\* the store after a call on each backend: every field belongs to one of them
Both(pico, host) ==
    [host.pm EXCEPT !.flash = pico.pm.flash, !.g_pico = pico.pm.g_pico]

StoreCall(op, arg, pico, host) ==
    /\ calls < MaxStoreOps
    /\ pmem' = Both(pico, host)
    /\ ret' = [op |-> op, arg |-> arg,
               pico |-> [res |-> pico.res, out |-> pico.out],
               host |-> [res |-> host.res, out |-> host.out],
               prev |-> Strip(ret)]
    /\ calls' = calls + 1
    /\ UNCHANGED <<w_, h_, grid_, start_, goal_, has_goal_, plan_, heur_, seen_, sim>>

EraseAll == StoreCall("erase_all", "none", eraseAll_pico(pmem), eraseAll_host(pmem))

Status == StoreCall("status", "none", status_pico(pmem), status_host(pmem))

SaveHeuristics ==
    \E hh \in StoreWeights :
        StoreCall("save_weights", hh, saveHeuristics_pico(pmem, hh), saveHeuristics_host(pmem, hh))

LoadHeuristics ==
    \E out \in StoreWeights :
        StoreCall("load_weights", out, loadHeuristics_pico(pmem, out), loadHeuristics_host(pmem, out))

SaveMapSnapshot ==
    \E map \in StoreMaps :
        StoreCall("save_map", map, saveMapSnapshot_pico(pmem, map), saveMapSnapshot_host(pmem, map))

LoadMapSnapshot ==
    \E out \in StoreMaps :
        StoreCall("load_map", out, loadMapSnapshot_pico(pmem, out), loadMapSnapshot_host(pmem, out))

NextStore ==
    EraseAll \/ Status \/ SaveHeuristics \/ LoadHeuristics \/ SaveMapSnapshot \/ LoadMapSnapshot

SpecStore == InitStore /\ [][NextStore]_vars

(***************************************************************************)
(* Properties of PersistentMemory                                          *)
(***************************************************************************)
Backends == {"pico", "host"}

\* the call before the last one was op, and it returned true on backend b
After(op, b) == "prev" \in DOMAIN ret /\ ret.prev.op = op /\ ret.prev[b].res = TRUE

WallFree(map) == map.grid = MazeMap(map.w, map.h)

\* C12 as stated: after save_map(m) returned true, load_map into a wall-free
\* map of the same width and height returns true and gives every cell the
\* wall bits of m.
C12_MapRoundTrip ==
    \A b \in Backends :
        (ret.op = "load_map" /\ After("save_map", b) /\ WallFree(ret.arg)
           /\ ret.arg.w = ret.prev.arg.w /\ ret.arg.h = ret.prev.arg.h)
        => (ret[b].res /\ ret[b].out.grid = ret.prev.arg.grid)

\* C13: after save_weights(w) returned true, the next load_weights returns
\* true and yields exactly w, whatever was stored before.
C13_WeightsRoundTrip ==
    \A b \in Backends :
        (ret.op = "load_weights" /\ After("save_weights", b))
        => (ret[b].res /\ ret[b].out = ret.prev.arg)

\* weights saved over other records and loaded into an object that held
\* other weights
C13_Witness ==
    /\ ret.op = "load_weights"
    /\ calls >= 3
    /\ \A b \in Backends : After("save_weights", b)
    /\ ret.arg # ret.prev.arg
    /\ ret.pico.out = ret.prev.arg
    /\ ret.host.out = ret.prev.arg
    /\ pmem.home

\* C14 as stated: when a map was saved with dimensions (w,h), load_map into a
\* map whose width or height differs returns false and leaves that map as it
\* was.
C14_DimensionMismatch ==
    \A b \in Backends :
        (ret.op = "load_map" /\ After("save_map", b)
           /\ (ret.arg.w # ret.prev.arg.w \/ ret.arg.h # ret.prev.arg.h))
        => (~ret[b].res /\ ret[b].out = ret.arg)

\* C16 as stated: with HOME set, every call of a sequence started on an empty
\* store returns the same on the device backend and on the host backend: the
\* same boolean, the same loaded weights or map, the same status.
C16_BackendsEquivalent ==
    (pmem.home /\ ret.op # "init") => ret.pico = ret.host

(***************************************************************************)
(* SpecCorrupt: loads in a fresh process from a store that holds records   *)
(* some other writer left: any magic, version, size and dimensions.        *)
(***************************************************************************)
\* page 0 of the sector as left behind
LeftPage0 ==
    [magic : {REC_MAGIC, MAP_MAGIC, <<65535, 65535>>}, version : {REC_VER, 2},
     size : {HeuristicsSize, 12}, h : {applyReward(Heuristics, "Back", FromInt(10))}]

\* heuristics.bin as left behind: absent, whole, or cut short
LeftFileH ==
    {NoFile} \cup [exists : {TRUE}, size : {HeuristicsSize, 8},
                   h : {applyReward(Heuristics, "Back", FromInt(10))}]

\* a map record as left behind, in page 1 and in map.bin; the payload is
\* three bytes in the file
LeftMapRecord ==
    [magic : {MAP_MAGIC, REC_MAGIC}, version : {MAP_VER, 2}, w : {2, 3}, h : {1},
     size : {0, 2, 3, 4}, data : {<<2, 8, 0>>}]

InitCorrupt ==
    /\ w_ = 1
    /\ h_ = 1
    /\ grid_ = MazeMap(1, 1)
    /\ NavInit
    /\ \E home \in BOOLEAN :
         \/ \E p0 \in LeftPage0, fh \in LeftFileH :
              pmem = [PmemEmpty EXCEPT !.home = home, !.flash.p0 = p0, !.file_h = fh]
         \/ \E mr \in LeftMapRecord :
              pmem = [PmemEmpty EXCEPT
                        !.home = home,
                        !.flash.p1 = mr,
                        !.file_m = [exists |-> TRUE, magic |-> mr.magic, version |-> mr.version,
                                    w |-> mr.w, h |-> mr.h, size |-> mr.size, bytes |-> mr.data]]
    /\ sim = NoSim
    /\ ret = NoCall
    /\ calls = 0

NextCorrupt == LoadHeuristics \/ LoadMapSnapshot

SpecCorrupt == InitCorrupt /\ [][NextCorrupt]_vars

\* the stored weights record carries magic MZHU, version 1 and
\* size = sizeof(weights); heuristics.bin carries no header at all
WeightsRecordGood(b) ==
    IF b = "pico"
    THEN /\ pmem.flash.p0.magic = REC_MAGIC
         /\ pmem.flash.p0.version = 1
         /\ pmem.flash.p0.size = HeuristicsSize
    ELSE FALSE

\* the stored map record of backend b
MapRecordOf(b) ==
    IF b = "pico" THEN pmem.flash.p1
    ELSE IF pmem.home /\ pmem.file_m.exists THEN pmem.file_m
    ELSE [magic |-> <<0, 0>>, version |-> 0, w |-> 0, h |-> 0, size |-> 0]

\* C15 as stated: in a process that saved no weights, load_weights returns
\* false whenever the stored weights record does not carry magic MZHU,
\* version 1 and size = sizeof(weights); load_map returns false whenever the
\* stored map record's magic is not MZMP, its version is not 1, its width or
\* height differ from the target's, or its size differs from width*height.
C15_LoadersReject ==
    \A b \in Backends :
        /\ (ret.op = "load_weights" /\ ~WeightsRecordGood(b)) => ~ret[b].res
        /\ (ret.op = "load_map"
              /\ LET mr == MapRecordOf(b) IN
                 \/ mr.magic # MAP_MAGIC
                 \/ mr.version # 1
                 \/ mr.w # ret.arg.w
                 \/ mr.h # ret.arg.h
                 \/ mr.size # mr.w * mr.h)
           => ~ret[b].res

(***************************************************************************)
(* The episode loops of tests/test_reach_goal.cpp and                      *)
(* tests/test_learning.cpp: a ground-truth maze, an agent at a cell with a *)
(* heading, and a Navigator that is shown the sensor reading of every      *)
(* step and asked what to do.                                              *)
(***************************************************************************)
GuardFactor == 10

\* add_all_walls: every wall of every cell present
add_all_walls(w, h) ==
    [i \in 0 .. (w * h - 1) |-> [wall_n |-> TRUE, wall_e |-> TRUE, wall_s |-> TRUE, wall_w |-> TRUE]]

\* m.set_wall(p.x, p.y, dir, false) for every passage <<p, dir>> of T
RECURSIVE carve(_, _, _, _)
carve(grid, w, h, T) ==
    IF T = {} THEN grid
    ELSE LET e == CHOOSE e \in T : TRUE IN
         carve(set_wall(grid, w, h, e[1].x, e[1].y, e[2], FALSE), w, h, T \ {e})

\* the edges between neighboring cells, named by the west or north cell
InnerEdges(w, h) ==
    {<<c, "E">> : c \in {c \in Cells(w, h) : c.x < w - 1}}
    \cup {<<c, "S">> : c \in {c \in Cells(w, h) : c.y < h - 1}}

\* the cells one passage of T away from a cell of S
Across(T, S) ==
    {Step(e[1], e[2]) : e \in {e \in T : e[1] \in S}}
    \cup {e[1] : e \in {e \in T : Step(e[1], e[2]) \in S}}

RECURSIVE Joined(_, _)
Joined(T, S) == IF Across(T, S) \subseteq S THEN S ELSE Joined(T, S \cup Across(T, S))

\* T is a spanning tree of the w x h grid
SpanningTree(T, w, h) ==
    /\ Cardinality(T) = w * h - 1
    /\ Joined(T, {Pt(0, 0)}) = Cells(w, h)

\* every perfect maze of the w x h grid: closed border, passages a spanning tree
PerfectMazes(w, h) ==
    {carve(add_all_walls(w, h), w, h, T) :
        T \in {T \in SUBSET InnerEdges(w, h) : SpanningTree(T, w, h)}}

\* the perfect mazes of the w x h grid whose passages include those of B
PerfectMazesWith(B, w, h) ==
    {carve(add_all_walls(w, h), w, h, B \cup T) :
        T \in {T \in SUBSET (InnerEdges(w, h) \ B) : SpanningTree(B \cup T, w, h)}}

make_sensor_read(m, w, cell, heading) ==
    LET c == m[at(w, cell.x, cell.y)] IN
    [left_free  |-> ~wall(c, abs_dirs[((heading + 3) % 4) + 1]),
     front_free |-> ~wall(c, abs_dirs[heading + 1]),
     right_free |-> ~wall(c, abs_dirs[((heading + 1) % 4) + 1])]

can_move(m, w, cell, absdir) == ~wall(m[at(w, cell.x, cell.y)], absdir)

apply_move(cell, heading, a) ==
    IF a = "Left" THEN [cell |-> cell, heading |-> (heading + 3) % 4]
    ELSE IF a = "Right" THEN [cell |-> cell, heading |-> (heading + 1) % 4]
    ELSE IF a = "Back" THEN [cell |-> cell, heading |-> (heading + 2) % 4]
    ELSE [cell |-> Step(cell, abs_dirs[heading + 1]), heading |-> heading]

\* the Navigator of both tests: setMapDimensions(W, H), setStartGoal({0,0},
\* {W-1,H-1}), planRoute() on the still wall-free map
InitNavigatorFor(w, h) ==
    /\ w_ = w
    /\ h_ = h
    /\ grid_ = MazeMap(w, h)
    /\ seen_ = [i \in 0 .. (w * h - 1) |-> 0]
    /\ start_ = Pt(0, 0)
    /\ goal_ = Pt(w - 1, h - 1)
    /\ has_goal_ = TRUE
    /\ plan_ = planRoute(TRUE, <<>>, MazeMap(w, h), w, h, Pt(0, 0), Pt(w - 1, h - 1)).plan
    /\ heur_ = Heuristics
    /\ pmem = PmemEmpty
    /\ ret = NoCall
    /\ calls = 0

(***************************************************************************)
(* SpecReach: reach_goal_episode on every perfect maze of the sizes in     *)
(* ReachDims and on the 4x4 perfect mazes that have the passages Corridor. *)
(***************************************************************************)
ReachDims == {<<2, 2>>, <<3, 2>>, <<3, 3>>}

Corridor ==
    {<<Pt(0, 0), "E">>, <<Pt(1, 0), "E">>, <<Pt(2, 0), "E">>, <<Pt(3, 0), "S">>,
     <<Pt(0, 1), "E">>, <<Pt(2, 1), "S">>, <<Pt(0, 2), "S">>, <<Pt(1, 2), "E">>,
     <<Pt(2, 2), "E">>, <<Pt(0, 3), "E">>, <<Pt(1, 3), "E">>, <<Pt(2, 3), "E">>}

InitReach ==
    \E d \in ReachDims \cup {<<4, 4>>} :
      /\ InitNavigatorFor(d[1], d[2])
      /\ \E m \in (IF d = <<4, 4>> THEN PerfectMazesWith(Corridor, 4, 4)
                    ELSE PerfectMazes(d[1], d[2])) :
           sim = [test |-> "reach_goal", map |-> m, agent |-> Pt(0, 0), heading |-> 1,
                  guard |-> d[1] * d[2] * GuardFactor, result |-> "running"]

\* end of a loop iteration: the agent has turned or moved
reach_moved(g, s, plan, mv) ==
    /\ grid_' = g
    /\ seen_' = s
    /\ plan_' = plan
    /\ sim' = [sim EXCEPT !.agent = mv.cell, !.heading = mv.heading, !.guard = @ - 1,
                          !.result = IF mv.cell = goal_ THEN "true" ELSE "running"]

\* Forward against a wall of the maze: after planRoute() and a second
\* decidePlanned, Forward is replaced by Right, Left or Back
reach_blocked(sr, g, s, plan, a) ==
    reach_moved(g, s, plan,
                apply_move(sim.agent, sim.heading,
                           IF a # "Forward" THEN a
                           ELSE IF sr.right_free THEN "Right"
                           ELSE IF sr.left_free THEN "Left"
                           ELSE "Back"))

reach_replan(sr, g, s, plan) ==
    reach_blocked(sr, g, s, plan,
                  decidePlanned(heur_, s, w_, h_, plan, sim.agent, sim.heading, sr).action)

reach_decided(sr, g, s, a) ==
    IF a = "Forward" /\ ~can_move(sim.map, w_, sim.agent, abs_dirs[sim.heading + 1])
    THEN reach_replan(sr, g, s, planRoute(has_goal_, plan_, g, w_, h_, start_, goal_).plan)
    ELSE reach_moved(g, s, plan_, apply_move(sim.agent, sim.heading, a))

reach_observed(sr, g, s) ==
    reach_decided(sr, g, s,
                  decidePlanned(heur_, s, w_, h_, plan_, sim.agent, sim.heading, sr).action)

reach_iteration(sr) ==
    reach_observed(sr, observe_walls(grid_, w_, h_, sim.agent, sr, sim.heading),
                   observe_seen(seen_, w_, h_, sim.agent))

\* one test of "guard-- > 0" and, if it passes, one iteration of the loop
ReachGoalEpisode ==
    /\ sim.test = "reach_goal"
    /\ sim.result = "running"
    /\ IF sim.guard = 0
       THEN /\ sim' = [sim EXCEPT !.result = "false"]
            /\ UNCHANGED <<grid_, seen_, plan_>>
       ELSE reach_iteration(make_sensor_read(sim.map, w_, sim.agent, sim.heading))
    /\ UNCHANGED <<w_, h_, start_, goal_, has_goal_, heur_, pmem, ret, calls>>

NextReach == ReachGoalEpisode

SpecReach == InitReach /\ [][NextReach]_vars

\* C17: in every perfect maze the agent that starts at (0,0) heading East,
\* observes, asks decidePlanned and applies the action on each step stands on
\* the goal (W-1,H-1) within 10*W*H steps: the episode never returns false.
C17_ReachesGoal == sim.test = "reach_goal" => sim.result # "false"

(***************************************************************************)
(* SpecEpisodes: run_episode twice with the same Navigator on every        *)
(* perfect maze of the sizes in EpisodeDims.                               *)
(***************************************************************************)
EpisodeDims == {<<2, 2>>, <<3, 2>>, <<2, 3>>}

\* the locals of run_episode at its start
EpisodeStart(m, w, h, episode, cost1) ==
    [test |-> "learning", map |-> m, agent |-> Pt(0, 0), heading |-> 1,
     guard |-> w * h * GuardFactor, steps |-> 0, collisions |-> 0,
     episode |-> episode, cost1 |-> cost1, result |-> "running"]

InitEpisodes ==
    \E d \in EpisodeDims :
      /\ InitNavigatorFor(d[1], d[2])
      /\ \E m \in PerfectMazes(d[1], d[2]) : sim = EpisodeStart(m, d[1], d[2], 1, 0)

\* end of a loop iteration: rewards applied, counters advanced
run_moved(g, s, hh, mv, blocked) ==
    /\ grid_' = g
    /\ seen_' = s
    /\ heur_' = IF mv.cell = goal_ THEN applyReward(hh, "Forward", FromInt(10)) ELSE hh
    /\ sim' = [sim EXCEPT !.agent = mv.cell, !.heading = mv.heading, !.guard = @ - 1,
                          !.steps = IF blocked THEN @ ELSE @ + 1,
                          !.collisions = IF blocked THEN @ + 1 ELSE @,
                          !.result = IF mv.cell = goal_ THEN "done" ELSE "running"]

run_acted(g, s, a, blocked) ==
    run_moved(g, s, applyReward(heur_, a, FromInt(IF blocked THEN -5 ELSE -1)),
              IF blocked THEN [cell |-> sim.agent, heading |-> sim.heading]
              ELSE apply_move(sim.agent, sim.heading, a),
              blocked)

run_decided(g, s, a) ==
    run_acted(g, s, a,
              a = "Forward" /\ ~can_move(sim.map, w_, sim.agent, abs_dirs[sim.heading + 1]))

run_observed(sr, g, s) ==
    run_decided(g, s, decidePlanned(heur_, s, w_, h_, plan_, sim.agent, sim.heading, sr).action)

run_iteration(sr) ==
    run_observed(sr, observe_walls(grid_, w_, h_, sim.agent, sr, sim.heading),
                 observe_seen(seen_, w_, h_, sim.agent))

\* one test of "guard-- > 0" and, if it passes, one iteration of the loop
RunEpisode ==
    /\ sim.test = "learning"
    /\ sim.result = "running"
    /\ IF sim.guard = 0
       THEN /\ sim' = [sim EXCEPT !.result = "done"]
            /\ UNCHANGED <<grid_, seen_, heur_>>
       ELSE run_iteration(make_sensor_read(sim.map, w_, sim.agent, sim.heading))
    /\ UNCHANGED <<w_, h_, start_, goal_, has_goal_, plan_, pmem, ret, calls>>

\* "int cost1 = run_episode(...); int cost2 = run_episode(...)": the second
\* call starts with the Navigator as the first one left it
SecondEpisode ==
    /\ sim.test = "learning"
    /\ sim.result = "done"
    /\ sim.episode = 1
    /\ sim' = EpisodeStart(sim.map, w_, h_, 2, sim.steps + sim.collisions * 5)
    /\ UNCHANGED <<w_, h_, grid_, start_, goal_, has_goal_, plan_, heur_, seen_, pmem, ret, calls>>

NextEpisodes == RunEpisode \/ SecondEpisode

SpecEpisodes == InitEpisodes /\ [][NextEpisodes]_vars

\* C18: of two episodes run one after the other in the same perfect maze
\* with the same Navigator, the second costs (steps + 5 * collisions) no more
\* than the first.
C18_SecondNoWorse ==
    (sim.test = "learning" /\ sim.episode = 2 /\ sim.result = "done") =>
      sim.steps + sim.collisions * 5 <= sim.cost1

(***************************************************************************)
(* SpecScore: score_for asked of a Navigator one of whose weights has been *)
(* moved to a multiple of 0.05 in [0.2, 3.0].                              *)
(***************************************************************************)
\* the floats k/20 for 0.2 <= k/20 <= 3.0
ScoreWeights == {FLit(k, 20) : k \in 4 .. 60}

InitScore ==
    /\ w_ = 1
    /\ h_ = 1
    /\ grid_ = MazeMap(1, 1)
    /\ start_ = Pt(0, 0)
    /\ goal_ = Pt(0, 0)
    /\ has_goal_ = FALSE
    /\ plan_ = <<>>
    /\ seen_ = <<>>
    /\ \E a \in Actions, wt \in ScoreWeights :
         heur_ = IF a = "Right" THEN [Heuristics EXCEPT !.w_right = wt]
                 ELSE IF a = "Forward" THEN [Heuristics EXCEPT !.w_front = wt]
                 ELSE IF a = "Left" THEN [Heuristics EXCEPT !.w_left = wt]
                 ELSE [Heuristics EXCEPT !.w_back = wt]
    /\ pmem = PmemEmpty
    /\ sim = NoSim
    /\ ret = NoCall
    /\ calls = 0

ScoreFor ==
    /\ ret = NoCall
    /\ \E a \in Actions, sr \in SensorRead :
         ret' = [op |-> "score_for", action |-> a, sr |-> sr, res |-> score_for(heur_, a, sr)]
    /\ UNCHANGED <<w_, h_, grid_, calls>>
    /\ UNCHANGED_nav
    /\ UNCHANGED <<pmem, sim>>

NextScore == ScoreFor

SpecScore == InitScore /\ [][NextScore]_vars

\* the action's direction is reported free
ActionFree(a, sr) ==
    IF a = "Right" THEN sr.right_free
    ELSE IF a = "Forward" THEN sr.front_free
    ELSE IF a = "Left" THEN sr.left_free
    ELSE ~sr.left_free /\ ~sr.front_free /\ ~sr.right_free

\* base: the action's weight if its direction is free and 0.1 otherwise; for
\* Back, w_back if none of left/front/right is free and 0.2 otherwise
BaseOf(a, sr) ==
    IF ActionFree(a, sr) THEN WeightOf(heur_, a)
    ELSE IF a = "Back" THEN FLit(1, 5)
    ELSE FLit(1, 10)

\* round(f * 10 / 3) for a float 0 < f < 16, in exact arithmetic, halves upward
RoundTenThirds(f) == (20 * f.m + 3 * 2^(0 - f.e)) \div (6 * 2^(0 - f.e))

\* the integer n with n <= f < n + 1, for a float 0 <= f <= 11
FloorOf(f) == CHOOSE n \in 0 .. 11 : ~FLt(f, FromInt(n)) /\ FLt(f, FromInt(n + 1))

AskedScore == ret.op = "score_for"

VisitLevels == {0, 254, 255}

\* the maps earlier observations left: without walls, or with every wall
VisitGrids(w, h) == {MazeMap(w, h), add_all_walls(w, h)}

InitVisit ==
    /\ \/ /\ w_ = 1 /\ h_ = 1
          /\ seen_ = <<>>
       \/ \E d \in ObserveDims :
            /\ w_ = d[1] /\ h_ = d[2]
            /\ seen_ \in [0 .. (d[1] * d[2] - 1) -> VisitLevels]
    /\ grid_ \in VisitGrids(w_, h_)
    /\ start_ = Pt(0, 0)
    /\ goal_ = Pt(0, 0)
    /\ has_goal_ = FALSE
    /\ plan_ = <<>>
    /\ heur_ = Heuristics
    /\ pmem = PmemEmpty
    /\ sim = NoSim
    /\ ret = NoCall
    /\ calls = 0

ObserveOnce ==
    /\ ret = NoCall
    /\ \E cell \in QueryPoints(w_, h_), sr \in SensorRead, heading \in 0 .. 3 :
         /\ grid_' = observe_walls(grid_, w_, h_, cell, sr, heading)
         /\ seen_' = observe_seen(seen_, w_, h_, cell)
         /\ ret' = [op |-> "observe", cell |-> cell, sr |-> sr, heading |-> heading,
                    before |-> [grid |-> grid_, seen |-> seen_]]
    /\ UNCHANGED <<w_, h_, start_, goal_, has_goal_, plan_, heur_, calls>>
    /\ UNCHANGED <<pmem, sim>>

NextVisit == ObserveOnce

SpecVisit == InitVisit /\ [][NextVisit]_vars

\* the visit count of an in-bounds cell p in the table seen; no cell has been
\* counted while there is no table
CountIn(seen, p) == IF DOMAIN seen = {} THEN 0 ELSE seen[p.y * w_ + p.x]

\* the count of the observed cell went up by one, or stayed at 255
CountedOnce ==
    CountIn(seen_, ret.cell) =
      IF CountIn(ret.before.seen, ret.cell) < 255
      THEN CountIn(ret.before.seen, ret.cell) + 1
      ELSE 255

OthersKept ==
    \A p \in Cells(w_, h_) \ {ret.cell} : CountIn(seen_, p) = CountIn(ret.before.seen, p)

\* C24 as stated: observe(cell, sr, h) increases the visit count of cell by
\* exactly 1 when cell is in bounds and its count is below 255, leaves it at
\* 255, never changes the count of another cell, and changes no count and no
\* wall when cell is out of bounds.
C24_Original ==
    ret.op = "observe" =>
      /\ InGrid(ret.cell) => CountedOnce
      /\ OthersKept
      /\ ~InGrid(ret.cell) => (seen_ = ret.before.seen /\ grid_ = ret.before.grid)

\* C24 amended: the same, the count of an in-bounds cell going up only when
\* the Navigator has a visit table (setMapDimensions was called); without one
\* observe changes walls only.
C24_CountsWithTable ==
    ret.op = "observe" =>
      /\ (InGrid(ret.cell) /\ DOMAIN ret.before.seen # {}) => CountedOnce
      /\ DOMAIN ret.before.seen = {} => seen_ = <<>>
      /\ OthersKept
      /\ ~InGrid(ret.cell) => (seen_ = ret.before.seen /\ grid_ = ret.before.grid)

\* a cell counted 254 times is observed and reaches 255, next to a cell that
\* stays at 255
C24_Witness ==
    /\ ret.op = "observe"
    /\ InGrid(ret.cell)
    /\ DOMAIN seen_ # {}
    /\ CountIn(ret.before.seen, ret.cell) = 254
    /\ CountIn(seen_, ret.cell) = 255
    /\ \E p \in Cells(w_, h_) \ {ret.cell} : CountIn(seen_, p) = 255

(***************************************************************************)
(* SpecWall: one recorded set_wall on a MazeMap(w, h) that earlier calls   *)
(* left without walls or with every wall.                                  *)
(***************************************************************************)
WallDims == {<<1, 1>>, <<2, 1>>, <<1, 2>>, <<2, 2>>, <<3, 3>>}

InitWall ==
    /\ \E d \in WallDims :
         /\ w_ = d[1]
         /\ h_ = d[2]
         /\ grid_ \in VisitGrids(d[1], d[2])
    /\ NavInit
    /\ ret = NoCall
    /\ calls = 0
    /\ pmem = PmemEmpty
    /\ sim = NoSim

SetWallOnce ==
    /\ ret = NoCall
    /\ \E x \in -1 .. w_, y \in -1 .. h_, dir \in Dirs, present \in BOOLEAN :
         /\ grid_' = set_wall(grid_, w_, h_, x, y, dir, present)
         /\ ret' = [op |-> "set_wall", x |-> x, y |-> y, dir |-> dir,
                    present |-> present, before |-> grid_]
    /\ UNCHANGED <<w_, h_, calls>>
    /\ UNCHANGED_nav
    /\ UNCHANGED <<pmem, sim>>

NextWall == SetWallOnce

SpecWall == InitWall /\ [][NextWall]_vars

\* the wall bits that differ between the map before the call and after it
ChangedBits ==
    {<<p, d>> \in Cells(w_, h_) \X Dirs :
        wall(grid_[at(w_, p.x, p.y)], d) # wall(ret.before[at(w_, p.x, p.y)], d)}

\* the bits set_wall(x, y, dir, ..) may write: the cell's own, and the
\* opposite one of the neighbor across dir when that neighbor is in bounds
AllowedBits ==
    IF ~in_bounds(w_, h_, ret.x, ret.y) THEN {}
    ELSE {<<Pt(ret.x, ret.y), ret.dir>>}
           \cup {<<q, Opposite(ret.dir)>> :
                   q \in {Step(Pt(ret.x, ret.y), ret.dir)} \cap Cells(w_, h_)}

\* C25: set_wall(x, y, dir, present) changes no wall bit other than (x, y)'s
\* dir bit and, when the neighbor across dir is in bounds, that neighbor's
\* opposite bit; it changes nothing when (x, y) is out of bounds, and on a
\* border direction only the local cell.
C25_SetWallFrame ==
    ret.op = "set_wall" =>
      /\ ChangedBits \subseteq AllowedBits
      /\ ~in_bounds(w_, h_, ret.x, ret.y) => grid_ = ret.before
      /\ ~InGrid(Step(Pt(ret.x, ret.y), ret.dir)) =>
            \A p \in Cells(w_, h_) \ {Pt(ret.x, ret.y)} :
               grid_[at(w_, p.x, p.y)] = ret.before[at(w_, p.x, p.y)]

\* an east wall is set on the last cell of the first row of a map with a
\* second row, and only that cell's east bit changed
C25_Witness ==
    /\ ret.op = "set_wall"
    /\ h_ > 1
    /\ ret.x = w_ - 1 /\ ret.y = 0 /\ ret.dir = "E"
    /\ ChangedBits = {<<Pt(ret.x, ret.y), "E">>}

(***************************************************************************)
(* Simulator artifacts (src/simulator/main.cpp): the versioned .soluct and *)
(* .plan files next to the map file.  A file name is the sequence of its   *)
(* characters, with "_solution_", "_plan_" and the extensions' letters     *)
(* kept as one element each; a directory maps names to contents.           *)
(***************************************************************************)
MaxSaves == 4

DigitChars == <<"0", "1", "2", "3", "4", "5", "6", "7", "8", "9">>

\* operator<<(int) for index >= 0
RECURSIVE ToDigits(_)
ToDigits(n) ==
    IF n < 10 THEN <<DigitChars[n + 1]>>
    ELSE ToDigits(n \div 10) \o <<DigitChars[(n % 10) + 1]>>

DigitValue(c) == CHOOSE v \in 0 .. 9 : DigitChars[v + 1] = c

\* std::atoi on a string without sign or blanks: the leading digits, 0 if none
RECURSIVE AtoiFrom(_, _)
AtoiFrom(str, acc) ==
    IF str = <<>> \/ ~(\E v \in 0 .. 9 : DigitChars[v + 1] = Head(str)) THEN acc
    ELSE AtoiFrom(Tail(str), acc * 10 + DigitValue(Head(str)))

Atoi(str) == AtoiFrom(str, 0)

\* std::string::find('.'): the first position of a dot, 0 for npos
FindDot(str) ==
    IF \E i \in 1 .. Len(str) : str[i] = "."
    THEN CHOOSE i \in 1 .. Len(str) : str[i] = "." /\ \A j \in 1 .. i - 1 : str[j] # "."
    ELSE 0

LastDot(str) ==
    IF \E i \in 1 .. Len(str) : str[i] = "."
    THEN CHOOSE i \in 1 .. Len(str) : str[i] = "." /\ \A j \in i + 1 .. Len(str) : str[j] # "."
    ELSE 0

\* fs::path::stem and fs::path::extension of a file name
stem(name) == IF LastDot(name) <= 1 THEN name ELSE SubSeq(name, 1, LastDot(name) - 1)

extension(name) == IF LastDot(name) <= 1 THEN <<>> ELSE SubSeq(name, LastDot(name), Len(name))

\* fname.rfind(prefix, 0) == 0
StartsWith(name, prefix) ==
    Len(name) >= Len(prefix) /\ SubSeq(name, 1, Len(prefix)) = prefix

make_solution_path(mapFile, index) ==
    stem(mapFile) \o <<"_solution_">> \o ToDigits(index) \o <<".", "soluct">>

make_plan_path(mapFile, index) ==
    stem(mapFile) \o <<"_plan_">> \o ToDigits(index) \o <<".", "plan">>

\* the index find_latest_*_index reads from one directory entry, 0 when the
\* entry is passed over
entry_index(fname, prefix, ext) ==
    IF extension(fname) # ext THEN 0
    ELSE IF ~StartsWith(fname, prefix) THEN 0
    ELSE IF FindDot(fname) # 0 /\ FindDot(fname) - 1 > Len(prefix)
         THEN Atoi(SubSeq(fname, Len(prefix) + 1, FindDot(fname) - 1))
         ELSE 0

Largest(S) == CHOOSE m \in S : \A k \in S : k <= m

find_latest_solution_index(dir, mapFile) ==
    Largest({0} \cup {entry_index(f, stem(mapFile) \o <<"_solution_">>, <<".", "soluct">>) :
                        f \in DOMAIN dir})

find_latest_plan_index(dir, mapFile) ==
    Largest({0} \cup {entry_index(f, stem(mapFile) \o <<"_plan_">>, <<".", "plan">>) :
                        f \in DOMAIN dir})

\* std::ofstream(out) << content: the file is created or replaced
write_file(dir, out, content) ==
    [f \in DOMAIN dir \cup {out} |-> IF f = out THEN content ELSE dir[f]]

\* the directory after the call and the path returned
save_solution_versioned(dir, mapFile, content) ==
    LET latest == find_latest_solution_index(dir, mapFile)
        lastFile == make_solution_path(mapFile, latest)
    IN  IF latest > 0 /\ lastFile \in DOMAIN dir /\ dir[lastFile] = content
        THEN [dir |-> dir, out |-> lastFile]
        ELSE [dir |-> write_file(dir, make_solution_path(mapFile, latest + 1), content),
              out |-> make_solution_path(mapFile, latest + 1)]

save_plan_versioned(dir, mapFile, content) ==
    LET next == find_latest_plan_index(dir, mapFile) + 1
    IN  [dir |-> write_file(dir, make_plan_path(mapFile, next), content),
         out |-> make_plan_path(mapFile, next)]

(***************************************************************************)
(* SpecFiles: solutions and plans saved for one map file chosen from       *)
(* maze/, starting with no artifact in the directory.                      *)
(***************************************************************************)
\* names list_maze_files can return: every regular file with extension .maze
MapFiles == {<<"m", ".", "maze">>, <<"m", ".", "x", ".", "maze">>}

Contents == {"A", "B"}

EmptyDir == [f \in {} |-> "A"]

InitFiles ==
    /\ w_ = 1 /\ h_ = 1
    /\ grid_ = MazeMap(1, 1)
    /\ NavInit
    /\ pmem = PmemEmpty
    /\ \E f \in MapFiles : sim = [test |-> "files", current_map_file |-> f, dir |-> EmptyDir]
    /\ ret = NoCall
    /\ calls = 0

SaveSolution ==
    /\ sim.test = "files"
    /\ calls < MaxSaves
    /\ \E content \in Contents :
         LET r == save_solution_versioned(sim.dir, sim.current_map_file, content) IN
         /\ sim' = [sim EXCEPT !.dir = r.dir]
         /\ ret' = [op |-> "save_solution", content |-> content, out |-> r.out,
                    before |-> sim.dir]
    /\ calls' = calls + 1
    /\ UNCHANGED <<w_, h_, grid_, pmem>>
    /\ UNCHANGED_nav

SavePlan ==
    /\ sim.test = "files"
    /\ calls < MaxSaves
    /\ \E content \in Contents :
         LET r == save_plan_versioned(sim.dir, sim.current_map_file, content) IN
         /\ sim' = [sim EXCEPT !.dir = r.dir]
         /\ ret' = [op |-> "save_plan", content |-> content, out |-> r.out,
                    before |-> sim.dir]
    /\ calls' = calls + 1
    /\ UNCHANGED <<w_, h_, grid_, pmem>>
    /\ UNCHANGED_nav

NextFiles == SaveSolution \/ SavePlan

SpecFiles == InitFiles /\ [][NextFiles]_vars

\* <stem>_solution_<n>.soluct and <stem>_plan_<n>.plan, written out
SolutionName(n) ==
    stem(sim.current_map_file) \o <<"_solution_">> \o ToDigits(n) \o <<".", "soluct">>

PlanName(n) ==
    stem(sim.current_map_file) \o <<"_plan_">> \o ToDigits(n) \o <<".", "plan">>

\* the highest n whose solution (plan) file exists in dir, 0 if none
HighestSolution(dir) == Largest({0} \cup {n \in 1 .. MaxSaves + 1 : SolutionName(n) \in DOMAIN dir})

HighestPlan(dir) == Largest({0} \cup {n \in 1 .. MaxSaves + 1 : PlanName(n) \in DOMAIN dir})

\* dir is before with one more file, name, holding content
AddsFile(before, dir, name, content) ==
    /\ name \notin DOMAIN before
    /\ DOMAIN dir = DOMAIN before \cup {name}
    /\ dir[name] = content
    /\ \A f \in DOMAIN before : dir[f] = before[f]

\* C26: saving a solution whose content equals that of the highest-numbered
\* existing <stem>_solution_<n>.soluct creates no file and returns that path;
\* any other content creates <stem>_solution_<n+1>.soluct.
C26_SolutionVersioned ==
    ret.op = "save_solution" =>
      LET n == HighestSolution(ret.before) IN
        IF n > 0 /\ ret.before[SolutionName(n)] = ret.content
        THEN sim.dir = ret.before /\ ret.out = SolutionName(n)
        ELSE /\ AddsFile(ret.before, sim.dir, SolutionName(n + 1), ret.content)
             /\ ret.out = SolutionName(n + 1)

\* C27: every save of a plan creates <stem>_plan_<n+1>.plan, n the highest
\* existing suffix (0 if none), whatever the content; no existing plan file
\* is rewritten.
C27_PlanAlwaysNew ==
    ret.op = "save_plan" =>
      /\ AddsFile(ret.before, sim.dir, PlanName(HighestPlan(ret.before) + 1), ret.content)
      /\ ret.out = PlanName(HighestPlan(ret.before) + 1)

(***************************************************************************)
(* The simulator's episode state machine (src/simulator/main.cpp, main):   *)
(* sim holds the locals of main, the Navigator variables hold nav.  The    *)
(* score, a double in the code, is kept in tenths.  Time is not modelled:  *)
(* a tick is enabled whenever the 250 ms since the last one can pass.      *)
(***************************************************************************)
BudgetFactor == 8

MaxKeys == 1

MaxOverrun == 2

MaxOutside == 1
MaxOutsideTicks == 1   \* most ticks followed with the agent outside the map

max_steps_fail == w_ * h_ * BudgetFactor

Running == {"RunningExplore", "RunningReplay"}

NoSolution == [written |-> FALSE, path |-> <<>>, steps |-> 0, collisions |-> 0]

\* what generate_maze can return for a w x h map: a perfect maze with the
\* outer wall opened at an entrance and a goal on opposite borders
GeneratedMazes(w, h) ==
    {[map |-> set_wall(set_wall(m, w, h, 0, ey, "W", FALSE), w, h, w - 1, oy, "E", FALSE),
      entrance |-> Pt(0, ey), goal |-> Pt(w - 1, oy), heading |-> 1] :
        m \in PerfectMazes(w, h), ey \in 0 .. h - 1, oy \in 0 .. h - 1}
    \cup
    {[map |-> set_wall(set_wall(m, w, h, ex, 0, "N", FALSE), w, h, ox, h - 1, "S", FALSE),
      entrance |-> Pt(ex, 0), goal |-> Pt(ox, h - 1), heading |-> 2] :
        m \in PerfectMazes(w, h), ex \in 0 .. w - 1, ox \in 0 .. w - 1}

\* two map files of maze/: a 2x1 map whose goal is walled off, and a 4x2
\* perfect maze with a closed border
LoadedMazes ==
    {[w |-> 2, h |-> 1, map |-> add_all_walls(2, 1),
      entrance |-> Pt(0, 0), goal |-> Pt(1, 0), heading |-> 0],
     [w |-> 4, h |-> 2,
      map |-> carve(add_all_walls(4, 2), 4, 2,
                    {<<Pt(0, 0), "E">>, <<Pt(1, 0), "E">>, <<Pt(2, 0), "E">>,
                     <<Pt(0, 0), "S">>, <<Pt(1, 0), "S">>, <<Pt(2, 0), "S">>,
                     <<Pt(3, 0), "S">>}),
      entrance |-> Pt(2, 0), goal |-> Pt(3, 1), heading |-> 0]}

\* generate_maze for the sizes of LoadedMazes, computed once
Generated == [d \in {<<2, 1>>, <<2, 2>>, <<4, 2>>} |-> GeneratedMazes(d[1], d[2])]

\* the locals of main once the maze m is chosen, with keys R/New keys used
SimReady(m, keys) ==
    [test |-> "simulator", map |-> m.map, start |-> m.entrance, goal |-> m.goal,
     entrance_heading |-> m.heading, agent |-> m.entrance, heading |-> m.heading,
     steps |-> 0, collisions |-> 0, score |-> 0, paused |-> FALSE, phase |-> "Ready",
     started |-> FALSE, time_frozen |-> FALSE,
     path_stack |-> <<m.entrance>>, step_log |-> <<>>, solution |-> NoSolution,
     keys |-> keys]

\* main after the menu, with the map of size w x h and the maze m loaded
InitSimulator(w, h, m) ==
    /\ w_ = w
    /\ h_ = h
    /\ grid_ = MazeMap(w, h)
    /\ seen_ = [i \in 0 .. (w * h - 1) |-> 0]
    /\ start_ = m.entrance
    /\ goal_ = m.goal
    /\ has_goal_ = TRUE
    /\ plan_ = <<>>
    /\ heur_ = Heuristics
    /\ pmem = PmemEmpty
    /\ sim = SimReady(m, 0)
    /\ ret = NoCall
    /\ calls = 0

InitSim == \E m \in LoadedMazes : InitSimulator(m.w, m.h, m)

\* the simulator started on a 2x2 maze that an earlier run generated and saved
InitSolve == \E m \in Generated[<<2, 2>>] : InitSimulator(2, 2, m)

\* the steps counted without the turns
steps_after_forward_only(steps, moved, a) ==
    IF moved /\ a = "Forward" THEN steps + 1 ELSE steps

\* if (moved) steps++
steps_after(steps, moved, a) == IF moved THEN steps + 1 ELSE steps

\* the trail stack after a counted step that left the agent on cell
push_trail(stack, cell) ==
    IF Len(stack) >= 2 /\ cell = stack[Len(stack) - 1]
    THEN SubSeq(stack, 1, Len(stack) - 1)
    ELSE IF stack = <<>> \/ cell # stack[Len(stack)] THEN Append(stack, cell)
    ELSE stack

\* the path written to the solution
final_path(stack, start) ==
    IF stack = <<>> \/ stack[1] # start THEN <<start>> \o stack ELSE stack

\* delta_score of a step, in tenths
delta_score(a, moved) ==
    IF a = "Forward" THEN (IF moved THEN 10 ELSE -50)
    ELSE IF a = "Back" THEN -2
    ELSE -1

event_of(a, moved) ==
    IF a = "Forward" THEN (IF moved THEN "forward" ELSE "collision")
    ELSE IF a = "Left" THEN "left"
    ELSE IF a = "Right" THEN "right"
    ELSE "back"

\* end of a tick: goal and budget tests, artifacts
sim_ended(a, mv, moved, steps, collisions, stack) ==
    sim' = [sim EXCEPT
              !.agent = mv.cell,
              !.heading = mv.heading,
              !.steps = steps,
              !.collisions = collisions,
              !.path_stack = stack,
              !.score = @ + delta_score(a, moved) + (IF mv.cell = sim.goal THEN 100 ELSE 0),
              !.step_log = Append(@, [from |-> sim.agent, to |-> mv.cell, action |-> a,
                                      moved |-> moved, event |-> event_of(a, moved),
                                      step_index |-> steps, collisions |-> collisions]),
              !.phase = IF mv.cell = sim.goal THEN "FinishedSuccess"
                        ELSE IF steps > max_steps_fail /\ sim.phase = "RunningExplore"
                             THEN "FinishedFail"
                        ELSE @,
              !.paused = \/ mv.cell = sim.goal
                         \/ steps > max_steps_fail /\ sim.phase = "RunningExplore",
              !.started = @ \/ moved,
              !.time_frozen = IF mv.cell = sim.goal THEN TRUE
                              ELSE IF moved /\ ~sim.started THEN FALSE
                              ELSE @,
              !.solution = IF mv.cell = sim.goal
                           THEN [written |-> TRUE, path |-> final_path(stack, sim.start),
                                 steps |-> steps, collisions |-> collisions]
                           ELSE @]

sim_moved(a, mv, moved) ==
    sim_ended(a, mv, moved,
              steps_after(sim.steps, moved, a),
              IF moved THEN sim.collisions ELSE sim.collisions + 1,
              IF moved THEN push_trail(sim.path_stack, mv.cell) ELSE sim.path_stack)

\* the action applied; a Forward against a wall turns the agent right while
\* exploring and leaves it as it is in a replay
sim_acted(a, free) ==
    IF a = "Forward" /\ ~free
    THEN sim_moved(a, IF sim.phase = "RunningExplore"
                      THEN apply_move(sim.agent, sim.heading, "Right")
                      ELSE [cell |-> sim.agent, heading |-> sim.heading],
                   FALSE)
    ELSE sim_moved(a, apply_move(sim.agent, sim.heading, a), TRUE)

sim_planned(sr, free, s, plan) ==
    /\ seen_' = s
    /\ plan_' = plan
    /\ sim_acted(decidePlanned(heur_, s, w_, h_, plan, sim.agent, sim.heading, sr).action, free)

sim_observed(sr, free, g, s) ==
    /\ grid_' = g
    /\ sim_planned(sr, free, s, planRoute(has_goal_, plan_, g, w_, h_, start_, goal_).plan)

\* one pass of the stepping block with sensor read sr and can_move = free
sim_tick(sr, free) ==
    sim_observed(sr, free, observe_walls(grid_, w_, h_, sim.agent, sr, sim.heading),
                 observe_seen(seen_, w_, h_, sim.agent))

\* the agent is at most MaxOutside cells outside the map
NearMap(p) ==
    /\ p.x >= 0 - MaxOutside /\ p.x <= w_ - 1 + MaxOutside
    /\ p.y >= 0 - MaxOutside /\ p.y <= h_ - 1 + MaxOutside

\* the ticks of this run that began with the agent outside the map
OutsideTicks ==
    Cardinality({i \in 1 .. Len(sim.step_log) : ~InGrid(sim.step_log[i].from)})

\* the stepping block of the main loop.  With the agent outside the map
\* (it left through an opened outer wall) map.at() reads outside the grid:
\* the sensor read and can_move are then any values.
Tick ==
    /\ sim.test = "simulator"
    /\ ~sim.paused
    /\ sim.phase \in Running
    /\ Len(sim.step_log) < max_steps_fail + MaxOverrun
    /\ NearMap(sim.agent)
    /\ OutsideTicks < MaxOutsideTicks
    /\ IF InGrid(sim.agent)
       THEN sim_tick(make_sensor_read(sim.map, w_, sim.agent, sim.heading),
                     can_move(sim.map, w_, sim.agent, abs_dirs[sim.heading + 1]))
       ELSE \E sr \in SensorRead, free \in BOOLEAN : sim_tick(sr, free)
    /\ ret' = [op |-> "tick"]
    /\ UNCHANGED <<w_, h_, start_, goal_, has_goal_, heur_, pmem, calls>>

\* the R key
KeyR ==
    /\ sim.test = "simulator"
    /\ sim.keys < MaxKeys
    /\ sim' = [sim EXCEPT !.agent = sim.start, !.heading = sim.entrance_heading,
                          !.steps = 0, !.collisions = 0, !.paused = FALSE,
                          !.time_frozen = FALSE,
                          !.path_stack = <<sim.start>>, !.step_log = <<>>,
                          !.keys = @ + 1]
    /\ ret' = [op |-> "reset"]
    /\ UNCHANGED <<w_, h_, grid_, seen_, start_, goal_, has_goal_, plan_, heur_, pmem, calls>>

\* the space key
KeySpace ==
    /\ sim.test = "simulator"
    /\ sim' = [sim EXCEPT !.paused = ~@]
    /\ ret' = [op |-> "pause"]
    /\ UNCHANGED <<w_, h_, grid_, seen_, start_, goal_, has_goal_, plan_, heur_, pmem, calls>>

\* the Start button: start or replay, stop, or test again
BtnStart ==
    /\ sim.test = "simulator"
    /\ IF sim.phase \in Running
       THEN /\ sim' = [sim EXCEPT !.paused = TRUE, !.phase = "Ready"]
            /\ ret' = [op |-> "stop"]
            /\ UNCHANGED <<grid_, seen_, start_, goal_, has_goal_>>
       ELSE /\ sim' = [sim EXCEPT !.agent = sim.start, !.heading = sim.entrance_heading,
                                  !.steps = 0, !.collisions = 0, !.paused = FALSE,
                                  !.time_frozen = FALSE,
                                  !.started = IF sim.phase = "FinishedFail" THEN @ ELSE FALSE,
                                  !.phase = IF sim.phase = "FinishedSuccess"
                                            THEN "RunningReplay" ELSE "RunningExplore",
                                  !.path_stack = <<sim.start>>, !.score = 0,
                                  !.step_log = <<>>]
            /\ ret' = [op |-> "start"]
            /\ grid_' = MazeMap(w_, h_)
            /\ seen_' = [i \in 0 .. (w_ * h_ - 1) |-> 0]
            /\ start_' = sim.start
            /\ goal_' = sim.goal
            /\ has_goal_' = TRUE
    /\ UNCHANGED <<w_, h_, plan_, heur_, pmem, calls>>

\* the New Maze button
BtnNew ==
    /\ sim.test = "simulator"
    /\ sim.keys < MaxKeys
    /\ \E m \in Generated[<<w_, h_>>] :
         /\ sim' = [SimReady(m, sim.keys + 1) EXCEPT !.solution = sim.solution]
         /\ start_' = m.entrance
         /\ goal_' = m.goal
    /\ ret' = [op |-> "new"]
    /\ grid_' = MazeMap(w_, h_)
    /\ seen_' = [i \in 0 .. (w_ * h_ - 1) |-> 0]
    /\ has_goal_' = TRUE
    /\ UNCHANGED <<w_, h_, plan_, heur_, pmem, calls>>

NextSim == Tick \/ KeyR \/ KeySpace \/ BtnStart \/ BtnNew

SpecSim == InitSim /\ [][NextSim]_vars

SpecSolve == InitSolve /\ [][NextSim]_vars

\* C29: an episode in a running phase never continues past the step budget
\* W*H*8: once the step count exceeds it without the goal reached the episode
\* is in the fail state, so no running state has more steps than the budget.
C29_WithinBudget ==
    (sim.test = "simulator" /\ sim.phase \in Running) => sim.steps <= max_steps_fail

\* C30: right after every episode start or restart (Start button, R key, new
\* maze) the per-step log is empty and score, steps and collisions are 0.
C30_FreshEpisode ==
    (sim.test = "simulator" /\ ret.op \in {"start", "reset", "new"}) =>
      /\ sim.step_log = <<>>
      /\ sim.score = 0
      /\ sim.steps = 0
      /\ sim.collisions = 0

\* the state right after the tick that reached the goal and wrote the solution
JustSolved ==
    /\ sim.test = "simulator"
    /\ ret.op = "tick"
    /\ sim.phase = "FinishedSuccess"
    /\ sim.solution.written

TurnEvents == {"left", "right", "back"}

\* C28 as stated: in every solution written on success the number of cells
\* of path is metrics.steps + 1.
C28_Original ==
    JustSolved => Len(sim.solution.path) = sim.solution.steps + 1

\* C28 amended: the path runs from the entrance to the goal and has at most
\* metrics.steps + 1 cells; it has exactly that many when every logged step
\* of the episode is a forward move, and at most metrics.steps when the
\* episode has a turn, since turns are counted as steps and add no cell.
C28_PathWithinSteps ==
    JustSolved =>
      /\ sim.solution.path[1] = sim.start
      /\ sim.solution.path[Len(sim.solution.path)] = sim.goal
      /\ Len(sim.solution.path) <= sim.solution.steps + 1
      /\ (\A i \in 1 .. Len(sim.step_log) : sim.step_log[i].event = "forward")
           => Len(sim.solution.path) = sim.solution.steps + 1
      /\ (\E i \in 1 .. Len(sim.step_log) : sim.step_log[i].event \in TurnEvents)
           => Len(sim.solution.path) <= sim.solution.steps

\* a success after turns and a return to an earlier cell: 5 cells for 9 steps
\* or the like
C28_Witness ==
    /\ JustSolved
    /\ \E i \in 1 .. Len(sim.step_log) : sim.step_log[i].event \in TurnEvents
    /\ Len(sim.solution.path) > 2
    /\ Len(sim.solution.path) + 2 < sim.solution.steps

\* C31: in every simulator state whose phase is FinishedSuccess the timer is
\* frozen and the simulation is paused, whatever keys and buttons came after
\* the goal was reached.
C31_SuccessFrozen ==
    (sim.test = "simulator" /\ sim.phase = "FinishedSuccess") =>
      (sim.time_frozen /\ sim.paused)

(***************************************************************************)
(* The firmware: main and the periodic control callback control_step_cb,   *)
(* on the device backend of PersistentMemory.  The readings of the IR      *)
(* sensors are inputs: only their order against the two thresholds and     *)
(* their finiteness reach the Navigator and the cell update.               *)
(***************************************************************************)
MaxControlSteps == 3   \* most runs of the control callback after a boot
MaxBoots == 1          \* most restarts of the firmware

\* CFG_MAZE_W x CFG_MAZE_H, a corridor here; the goal is the last cell
FirmwareDims == <<3, 1>>
CFG_MAZE_W == FirmwareDims[1]
CFG_MAZE_H == FirmwareDims[2]
CFG_GOAL_X == CFG_MAZE_W - 1
CFG_GOAL_Y == CFG_MAZE_H - 1

\* a clamped reading v: "near" is v <= th_near, "mid" is th_near < v < th_free,
\* "far" is v >= th_free
IRLevels == {"near", "mid", "far"}

\* readAll(): finite says whether the three values are finite; the side
\* sensors are only compared with th_free
IRValues ==
    [finite : {TRUE}, left : {"mid", "far"}, front : IRLevels, right : {"mid", "far"}]
      \cup {[finite |-> FALSE, left |-> "far", front |-> "far", right |-> "far"]}

\* "sr.left_free = vals.left < th_free" and the two others
ir_sensor_read(vals) ==
    [left_free |-> vals.left # "far", front_free |-> vals.front # "far",
     right_free |-> vals.right # "far"]

\* the goal block of the callback with the snapshot saved before the weights
persist_goal_map_first(pm, hh, map) ==
    [pm |-> saveHeuristics_pico(saveMapSnapshot_pico(pm, map).pm, hh).pm,
     saves |-> <<"save_map", "save_weights">>]

\* "PersistentMemory::saveHeuristics(h); PersistentMemory::saveMapSnapshot(map);"
persist_goal(pm, hh, map) ==
    [pm |-> saveMapSnapshot_pico(saveHeuristics_pico(pm, hh).pm, map).pm,
     saves |-> <<"save_weights", "save_map">>]

\* "switch (ctx->heading)": one cell ahead, clamped at the border
forward_cell(cur, heading) ==
    IF heading = 0 THEN (IF cur.y > 0 THEN Pt(cur.x, cur.y - 1) ELSE cur)
    ELSE IF heading = 1 THEN (IF cur.x + 1 < CFG_MAZE_W THEN Pt(cur.x + 1, cur.y) ELSE cur)
    ELSE IF heading = 2 THEN (IF cur.y + 1 < CFG_MAZE_H THEN Pt(cur.x, cur.y + 1) ELSE cur)
    ELSE (IF cur.x > 0 THEN Pt(cur.x - 1, cur.y) ELSE cur)

\* the result of the switch on d.action
Stepped(ctx, hh, pm, saves) == [ctx |-> ctx, heur |-> hh, pm |-> pm, saves |-> saves]

\* the goal test after a Forward that moved, with the weights hh after the reward
control_arrived(ctx, hh, pm, map) ==
    IF ctx.cur = Pt(CFG_GOAL_X, CFG_GOAL_Y)
    THEN LET p == persist_goal(pm, hh, map) IN
         Stepped([ctx EXCEPT !.planned = FALSE, !.arrivals = @ + 1], hh, p.pm, p.saves)
    ELSE Stepped(ctx, hh, pm, <<>>)

\* "switch (d.action)" with the front reading
control_switch(ctx, hh, pm, map, a, front) ==
    IF a = "Right"
    THEN Stepped([ctx EXCEPT !.heading = (@ + 1) % 4], applyReward(hh, a, FLit(1, 5)), pm, <<>>)
    ELSE IF a = "Left"
    THEN Stepped([ctx EXCEPT !.heading = (@ + 3) % 4], applyReward(hh, a, FLit(1, 5)), pm, <<>>)
    ELSE IF a = "Back"
    THEN Stepped([ctx EXCEPT !.heading = (@ + 2) % 4], applyReward(hh, a, FLit(-3, 10)), pm, <<>>)
    ELSE IF front = "near"
    THEN Stepped(ctx, applyReward(hh, a, FLit(-1, 5)), pm, <<>>)
    ELSE control_arrived([ctx EXCEPT !.cur = forward_cell(ctx.cur, ctx.heading)],
                         applyReward(hh, a, FLit(3, 10)), pm, map)

\* the end of the callback: the context, the weights and the store it leaves
control_done(a, r) ==
    /\ sim' = r.ctx
    /\ heur_' = r.heur
    /\ pmem' = r.pm
    /\ ret' = [op |-> "control_step", action |-> a, saves |-> r.saves, before |-> sim.cur,
               stored |-> flash_has_valid_record(pmem)]

control_acted(vals, g, planned, a) ==
    control_done(a, control_switch([sim EXCEPT !.planned = planned], heur_, pmem,
                                   MapObj(w_, h_, g), a, vals.front))

\* "Decision d = ctx->planned ? decidePlanned(cur, heading, sr) : decide(sr);"
control_decided(vals, sr, g, s, planned, plan) ==
    control_acted(vals, g, planned,
                  IF planned
                  THEN decidePlanned(heur_, s, w_, h_, plan, sim.cur, sim.heading, sr).action
                  ELSE decide(heur_, sr).action)

\* "if (!ctx->planned) ctx->planned = ctx->nav->planRoute();"
control_planned(vals, sr, g, s, pr) ==
    /\ plan_' = IF sim.planned THEN plan_ ELSE pr.plan
    /\ control_decided(vals, sr, g, s, sim.planned \/ pr.res,
                       IF sim.planned THEN plan_ ELSE pr.plan)

control_observed(vals, sr, g, s) ==
    /\ grid_' = g
    /\ seen_' = s
    /\ control_planned(vals, sr, g, s, planRoute(has_goal_, plan_, g, w_, h_, start_, goal_))

\* one run of control_step_cb with the readings vals
control_step_cb(vals) ==
    IF ~vals.finite
    THEN /\ ret' = [op |-> "control_step", action |-> "none", saves |-> <<>>,
                    before |-> sim.cur, stored |-> flash_has_valid_record(pmem)]
         /\ UNCHANGED <<grid_, seen_, plan_, heur_, pmem, sim>>
    ELSE control_observed(vals, ir_sensor_read(vals),
                          observe_walls(grid_, w_, h_, sim.cur, ir_sensor_read(vals), sim.heading),
                          observe_seen(seen_, w_, h_, sim.cur))

\* struct ControlContext after main built it, in the boots-th run of main
ControlContext(boots) ==
    [test |-> "firmware", cur |-> Pt(0, 0), heading |-> 1, planned |-> FALSE,
     arrivals |-> 0, boots |-> boots]

\* main up to the start of the timer, on the flash pm; reset says whether
\* RESET came in the command window
firmware_main(pm, reset, boots) ==
    LET ram == [pm EXCEPT !.g_pico = PmemEmpty.g_pico]
        pm0 == IF reset THEN eraseAll_pico(ram).pm ELSE ram
        lh  == loadHeuristics_pico(pm0, Heuristics)
        lm  == loadMapSnapshot_pico(lh.pm, MapObj(CFG_MAZE_W, CFG_MAZE_H,
                                                  MazeMap(CFG_MAZE_W, CFG_MAZE_H)))
    IN [pm |-> lm.pm, heur |-> lh.out, grid |-> lm.out.grid,
        ctx |-> ControlContext(boots),
        calls |-> <<"load_weights", "load_map">>,
        saves |-> IF reset THEN <<"erase_all">> ELSE <<>>]

FirmwareStarted(m) ==
    /\ w_ = CFG_MAZE_W
    /\ h_ = CFG_MAZE_H
    /\ grid_ = m.grid
    /\ seen_ = [i \in 0 .. (CFG_MAZE_W * CFG_MAZE_H - 1) |-> 0]
    /\ start_ = Pt(0, 0)
    /\ goal_ = Pt(CFG_GOAL_X, CFG_GOAL_Y)
    /\ has_goal_ = TRUE
    /\ plan_ = <<>>
    /\ heur_ = m.heur
    /\ pmem = m.pm
    /\ sim = m.ctx

\* the first start, on an erased sector
InitFirmware ==
    /\ FirmwareStarted(firmware_main(PmemEmpty, FALSE, 0))
    /\ ret = NoCall
    /\ calls = 0

\* the timer fires
ControlStep ==
    /\ sim.test = "firmware"
    /\ calls < MaxControlSteps
    /\ \E vals \in IRValues : control_step_cb(vals)
    /\ calls' = calls + 1
    /\ UNCHANGED <<w_, h_, start_, goal_, has_goal_>>

\* power is cycled: main runs again on the flash as it stands
Boot ==
    /\ sim.test = "firmware"
    /\ sim.boots < MaxBoots
    /\ \E reset \in BOOLEAN :
         LET m == firmware_main(pmem, reset, sim.boots + 1) IN
         /\ grid_' = m.grid
         /\ heur_' = m.heur
         /\ pmem' = m.pm
         /\ sim' = m.ctx
         /\ ret' = [op |-> "boot", action |-> "none", saves |-> m.saves, before |-> sim.cur,
                    stored |-> flash_has_valid_record(pmem)]
    /\ seen_' = [i \in 0 .. (CFG_MAZE_W * CFG_MAZE_H - 1) |-> 0]
    /\ plan_' = <<>>
    /\ calls' = 0
    /\ UNCHANGED <<w_, h_, start_, goal_, has_goal_>>

NextFirmware == ControlStep \/ Boot

SpecFirmware == InitFirmware /\ [][NextFirmware]_vars

\* C32: no operation that erases or programs the store (save_weights,
\* save_map, erase_all) is invoked from inside the periodic control callback.
C32_NoPersistInCallback ==
    ret.op = "control_step" => ret.saves = <<>>

\* the goal of the firmware
CfgGoal == Pt(CFG_GOAL_X, CFG_GOAL_Y)

\* the callback just run has written to the store
Persisted == ret.op = "control_step" /\ ret.saves # <<>>

\* C39: each time the firmware agent reaches the goal it saves the weights
\* first and the map snapshot second, and after that pair load_weights and
\* load_map into a blank map of the configured dimensions both succeed and
\* return the Navigator's weights and walls as they were at the save, on the
\* first arrival and on every later one.
C39_GoalPairLoads ==
    /\ (ret.op = "control_step" /\ ret.before # CfgGoal /\ sim.cur = CfgGoal) => Persisted
    /\ Persisted =>
         LET fresh == [pmem EXCEPT !.g_pico = PmemEmpty.g_pico]
             lh    == loadHeuristics_pico(fresh, Heuristics)
             lm    == loadMapSnapshot_pico(fresh, MapObj(CFG_MAZE_W, CFG_MAZE_H,
                                                        MazeMap(CFG_MAZE_W, CFG_MAZE_H)))
         IN /\ ret.saves = <<"save_weights", "save_map">>
            /\ lh.res /\ lh.out = heur_
            /\ lm.res /\ lm.out.grid = grid_

\* an arrival after a restart, on a sector that held the records of an
\* earlier arrival, with walls in the map and weights that have moved
C39_Witness ==
    /\ Persisted
    /\ ret.stored
    /\ sim.boots >= 1
    /\ ret.before # CfgGoal
    /\ grid_ # MazeMap(CFG_MAZE_W, CFG_MAZE_H)
    /\ heur_ # Heuristics

\* C40: the control loop writes persistent records only on a tick in which the
\* agent's cell changes from a cell other than the goal to the goal.
C40_SaveOnlyOnArrival ==
    Persisted => (ret.before # CfgGoal /\ sim.cur = CfgGoal)

(***************************************************************************)
(* A reference breadth-first search for bfs_path: the cells found so far   *)
(* are kept in the order of their discovery, each with its discoverer, and *)
(* the cells are taken from that list first to last.                       *)
(***************************************************************************)
RefFound(found, c) == \E k \in 1 .. Len(found) : found[k].cell = c

RECURSIVE RefDiscover(_, _, _)
\* the neighbors of p in the directions dirs, in that order, joined to found
RefDiscover(found, p, dirs) ==
    IF dirs = <<>> THEN found
    ELSE LET n == Step(p, Head(dirs)) IN
         RefDiscover(IF ~WallAt(p, Head(dirs)) /\ InGrid(n) /\ ~RefFound(found, n)
                     THEN Append(found, [cell |-> n, from |-> p])
                     ELSE found,
                     p, Tail(dirs))

RECURSIVE RefSearch(_, _, _)
\* i is the place in found of the next cell to take; the search ends when
\* no cell is left or the goal is taken
RefSearch(found, i, goal) ==
    IF i > Len(found) \/ found[i].cell = goal THEN found
    ELSE RefSearch(RefDiscover(found, found[i].cell, <<"N", "E", "S", "W">>), i + 1, goal)

RECURSIVE RefPathTo(_, _, _)
RefPathTo(found, c, start) ==
    IF c = start THEN <<start>>
    ELSE LET k == CHOOSE k \in 1 .. Len(found) : found[k].cell = c IN
         Append(RefPathTo(found, found[k].from, start), c)

RefBfs(start, goal) ==
    LET found == RefSearch(<<[cell |-> start, from |-> start]>>, 1, goal) IN
    IF RefFound(found, goal) THEN Some(RefPathTo(found, goal, start)) ELSE None

\* from (0,0) East gx times, then South gy times
EastThenSouth(gx, gy) ==
    [i \in 1 .. gx + gy + 1 |-> IF i <= gx + 1 THEN Pt(i - 1, 0) ELSE Pt(gx, i - 1 - gx)]

\* C33: bfs_path returns exactly the path of the reference breadth-first
\* search (first in first out, neighbors in the order N, E, S, W, the first
\* discoverer as predecessor, stop when the goal is taken from the queue); on
\* a wall-free grid from (0,0) the path goes East gx times, then South gy times.
C33_ReferenceBfs ==
    (ret.op = "bfs_path" /\ InGrid(ret.start) /\ InGrid(ret.goal)) =>
      /\ ret.res = RefBfs(ret.start, ret.goal)
      /\ (grid_ = MazeMap(w_, h_) /\ ret.start = Pt(0, 0)) =>
           ret.res = Some(EastThenSouth(ret.goal.x, ret.goal.y))

\* a goal with several shortest routes on a wall-free grid: the route along
\* the top row is the one returned
C33_Witness ==
    /\ ret.op = "bfs_path"
    /\ ret.start = Pt(0, 0)
    /\ ret.goal = Pt(w_ - 1, h_ - 1)
    /\ w_ >= 3 /\ h_ >= 2
    /\ grid_ = MazeMap(w_, h_)
    /\ ret.res.ok
    /\ ret.res.path[2] = Pt(1, 0)

\* the wall bits that differ before and after the observation
ObservedChanged ==
    {<<p, d>> \in Cells(w_, h_) \X Dirs :
        wall(grid_[at(w_, p.x, p.y)], d) # wall(ret.before.grid[at(w_, p.x, p.y)], d)}

\* the bits on side d of the observed cell: its own and the opposite one of
\* the neighbor across d when that neighbor is in bounds
SideBits(d) ==
    {<<ret.cell, d>>} \cup {<<q, Opposite(d)>> : q \in {Step(ret.cell, d)} \cap Cells(w_, h_)}

\* the left, front and right sides at the heading of the observation
ObservedSides == {DirOf((ret.heading + k) % 4) : k \in {3, 0, 1}}

\* C34: observe(cell, sr, h) never changes the wall of cell in the back
\* direction (h + 2) mod 4, and changes no wall bit other than the left, front
\* and right bits of cell and the opposite bits of the in-bounds neighbors
\* across them.
C34_ObserveFrame ==
    ret.op = "observe" =>
      /\ InGrid(ret.cell) =>
           /\ WallAt(ret.cell, DirOf((ret.heading + 2) % 4))
                = wall(ret.before.grid[at(w_, ret.cell.x, ret.cell.y)],
                       DirOf((ret.heading + 2) % 4))
           /\ ObservedChanged \subseteq UNION {SideBits(d) : d \in ObservedSides}
      /\ ~InGrid(ret.cell) => ObservedChanged = {}

\* a cell with a wall behind it, shared with a neighbor, is observed and its
\* front wall goes away: the wall behind stays on both cells
C34_Witness ==
    /\ ret.op = "observe"
    /\ InGrid(ret.cell)
    /\ InGrid(Step(ret.cell, DirOf((ret.heading + 2) % 4)))
    /\ WallAt(ret.cell, DirOf((ret.heading + 2) % 4))
    /\ WallAt(Step(ret.cell, DirOf((ret.heading + 2) % 4)), DirOf(ret.heading))
    /\ <<ret.cell, DirOf(ret.heading)>> \in ObservedChanged

\* C35: after a successful load_map into a map of matching dimensions, every
\* wall bit of that map equals the bit of the snapshot saved just before,
\* whatever walls the map held before the load.
C35_LoadOverwrites ==
    (ret.op = "load_map" /\ ret.prev.op = "save_map") =>
      /\ ret.host.res => ret.host.out.grid = ret.prev.arg.grid
      /\ ret.pico.res => ret.pico.out.grid = ret.prev.arg.grid

\* a map of the dimensions of map without walls, to load into
BlankLike(map) == MapObj(map.w, map.h, MazeMap(map.w, map.h))

\* C36: the weights record and the map snapshot coexist: after a save_map(m)
\* that returned true, a save_weights leaves the snapshot intact, so load_map
\* still returns true and yields m, on the device as on the host.
C36_SnapshotSurvivesWeights ==
    (ret.op = "save_weights" /\ ret.prev.op = "save_map") =>
      /\ ret.prev.pico.res =>
           LET l == loadMapSnapshot_pico(pmem, BlankLike(ret.prev.arg)) IN
           l.res /\ l.out.grid = ret.prev.arg.grid
      /\ ret.prev.host.res =>
           LET l == loadMapSnapshot_host(pmem, BlankLike(ret.prev.arg)) IN
           l.res /\ l.out.grid = ret.prev.arg.grid

(***************************************************************************)
(* SpecNavigator: one Navigator under setMapDimensions, setStartGoal,      *)
(* observeCellWalls, planRoute, decidePlanned and applyReward in any       *)
(* order, with the indices of seen_ each call reads or writes.             *)
(***************************************************************************)
MaxNavCalls == 2

\* setMapDimensions that keeps a visit table it already has
setMapDimensions_keep_seen(seen, w, h) ==
    [grid |-> MazeMap(w, h),
     seen |-> IF SeenSize(seen) # 0 THEN seen ELSE [i \in 0 .. (w * h - 1) |-> 0]]

\* "map_ = MazeMap(w,h); seen_.assign(w * h, 0);"
setMapDimensions(seen, w, h) ==
    [grid |-> MazeMap(w, h), seen |-> [i \in 0 .. (w * h - 1) |-> 0]]

\* the indices of seen_ that observeCellWalls(cell, ..) reads and writes
observe_index(seen, w, h, cell) ==
    IF SeenSize(seen) # 0 /\ in_bounds(w, h, cell.x, cell.y)
    THEN LET id == at(w, cell.x, cell.y) IN
         IF id >= 0 /\ id < SeenSize(seen) THEN {id} ELSE {}
    ELSE {}

\* the index of seen_ that push_cand(rel, free_flag) reads
push_cand_index(seen, w, h, current, heading, rel, free_flag) ==
    IF ~free_flag THEN {}
    ELSE LET n == Step(current, rel_to_abs(heading, rel)) IN
         IF SeenSize(seen) # 0 /\ in_bounds(w, h, n.x, n.y) THEN {at(w, n.x, n.y)} ELSE {}

NavCall(op, indices) ==
    /\ calls' = calls + 1
    /\ ret' = [op |-> op, indices |-> indices]
    /\ UNCHANGED <<pmem, sim>>

NavSetDimensions ==
    /\ calls < MaxNavCalls
    /\ \E d \in ObserveDims \cup {<<2, 2>>} :
         LET m == setMapDimensions(seen_, d[1], d[2]) IN
         /\ w_' = d[1]
         /\ h_' = d[2]
         /\ grid_' = m.grid
         /\ seen_' = m.seen
    /\ NavCall("set_dimensions", {})
    /\ UNCHANGED <<start_, goal_, has_goal_, plan_, heur_>>

NavSetStartGoal ==
    /\ calls < MaxNavCalls
    /\ \E s \in PlanPoints(w_, h_), g \in PlanPoints(w_, h_) :
         /\ start_' = s
         /\ goal_' = g
    /\ has_goal_' = TRUE
    /\ NavCall("set_start_goal", {})
    /\ UNCHANGED <<w_, h_, grid_, plan_, heur_, seen_>>

NavObserve ==
    /\ calls < MaxNavCalls
    /\ \E cell \in QueryPoints(w_, h_), sr \in SensorRead, heading \in 0 .. 3 :
         /\ grid_' = observe_walls(grid_, w_, h_, cell, sr, heading)
         /\ seen_' = observe_seen(seen_, w_, h_, cell)
         /\ NavCall("observe", observe_index(seen_, w_, h_, cell))
    /\ UNCHANGED <<w_, h_, start_, goal_, has_goal_, plan_, heur_>>

NavPlanRoute ==
    /\ calls < MaxNavCalls
    /\ plan_' = planRoute(has_goal_, plan_, grid_, w_, h_, start_, goal_).plan
    /\ NavCall("plan_route", {})
    /\ UNCHANGED <<w_, h_, grid_, start_, goal_, has_goal_, heur_, seen_>>

NavDecidePlanned ==
    /\ calls < MaxNavCalls
    /\ \E current \in QueryPoints(w_, h_), heading \in 0 .. 3, sr \in SensorRead :
         /\ decidePlanned(heur_, seen_, w_, h_, plan_, current, heading, sr).action \in Actions
         /\ NavCall("decide_planned",
                    push_cand_index(seen_, w_, h_, current, heading, 0, sr.left_free)
                      \cup push_cand_index(seen_, w_, h_, current, heading, 1, sr.front_free)
                      \cup push_cand_index(seen_, w_, h_, current, heading, 2, sr.right_free))
    /\ UNCHANGED <<w_, h_, grid_, start_, goal_, has_goal_, plan_, heur_, seen_>>

NavApplyReward ==
    /\ calls < MaxNavCalls
    /\ \E a \in Actions, r \in {-5, 10} : heur_' = applyReward(heur_, a, FromInt(r))
    /\ NavCall("apply_reward", {})
    /\ UNCHANGED <<w_, h_, grid_, start_, goal_, has_goal_, plan_, seen_>>

NextNavigator ==
    \/ NavSetDimensions
    \/ NavSetStartGoal
    \/ NavObserve
    \/ NavPlanRoute
    \/ NavDecidePlanned
    \/ NavApplyReward

SpecNavigator == InitNav /\ [][NextNavigator]_vars

\* C37: the visit-count table is empty (before the first set_dimensions) or
\* has exactly width*height entries for the current map, and every index of
\* it read by decide_planned or written by observe is within its range.
C37_VisitTableSized ==
    /\ SeenSize(seen_) = 0 \/ SeenSize(seen_) = w_ * h_
    /\ DOMAIN seen_ = {} \/ DOMAIN seen_ = 0 .. (w_ * h_ - 1)
    /\ ret.op \in {"observe", "decide_planned"} => ret.indices \subseteq 0 .. (w_ * h_ - 1)
    /\ (ret.op \in {"observe", "decide_planned"} /\ SeenSize(seen_) = 0) => ret.indices = {}

\* the map was dimensioned 2x2 and a planned decision read the entries of
\* two neighbors of a cell in the table
C37_Witness ==
    /\ ret.op = "decide_planned"
    /\ Cardinality(ret.indices) = 2
    /\ SeenSize(seen_) = 4

(***************************************************************************)
(* SpecEscape: the simulator started on the generated 4x2 maze whose       *)
(* entrance is the north-west corner, whose exit is the south-east corner  *)
(* and whose inner walls are those east of (0,0), south of (2,0) and east  *)
(* of (2,1).                                                               *)
(***************************************************************************)
InitEscape ==
    \E m \in Generated[<<4, 2>>] :
        /\ m.entrance = Pt(0, 0)
        /\ m.goal = Pt(3, 1)
        /\ m.heading = 2
        /\ m.map[at(4, 0, 0)].wall_e
        /\ m.map[at(4, 2, 0)].wall_s
        /\ m.map[at(4, 2, 1)].wall_e
        /\ InitSimulator(4, 2, m)

SpecEscape == InitEscape /\ [][NextSim]_vars

\* C38: during any simulator episode on a generated maze the agent's cell is
\* in bounds of the maze: no sequence of steps moves the agent out through
\* the opening of the entrance or of the exit.
C38_AgentInBounds ==
    sim.test = "simulator" => InGrid(sim.agent)

====
